---- MODULE Spec2Model ----
(***************************************************************************)
(* Draw orchestration of Model / ModelMesh / ModelMeshPart (Src/Model.cpp). *)
(*                                                                         *)
(* A Model is a sequence of meshes, a mesh a sequence of parts.  Each draw *)
(* entry point is one action; what it issues to the device context and     *)
(* what it pushes into the effects is recorded, in program order, in the   *)
(* command stream cmds of the call.  Matrices are symbolic values: element *)
(* i of the caller's array is CallerMatrices[i+1], element i of the        *)
(* Model's own absolute-transform array is OwnMatrices[i+1].               *)
(***************************************************************************)
EXTENDS Integers, Sequences, FiniteSets, TLC

\* ------------------------------------------------------------------ bounds
MaxMeshes == 2
MaxParts == 2
MaxBones == 2

\* --------------------------------------------------------------- constants
\* ModelBone::c_Invalid is uint32_t(-1); here the largest integer TLC represents,
\* which like the original is above every bone count.
c_Invalid == 2147483647
D3D11_IA_VERTEX_INPUT_STRUCTURE_ELEMENT_COUNT == 32

NULL == "null"
OK == "ok"
InvalidArgument == "InvalidArgument"
MissingSkinningData == "MissingSkinningData"
InvalidConfiguration == "InvalidConfiguration"
NullEffect == "NullEffect"

\* Effect instances, one per capability set; identity is the name.
Effects == {"fxBasic", "fxMatrices", "fxSkinning", "fxSkinnedMatrices"}

\* dynamic_cast<IEffectMatrices*>(effect) != nullptr
IEffectMatrices(e) == e \in {"fxMatrices", "fxSkinnedMatrices"}

\* dynamic_cast<IEffectSkinning*>(effect) != nullptr
IEffectSkinning(e) == e \in {"fxSkinning", "fxSkinnedMatrices"}

CallerMatrices == <<"T0", "T1", "T2", "T3">>
OwnMatrices == <<"B0", "B1", "B2", "B3">>
World == "W"
View == "V"
Projection == "P"

VARIABLES
    meshes,         \* Model::meshes, each [boneIndex, ccw, pmalpha, boneInfluences, meshParts]
    bones,          \* Model::bones (names)
    boneMatrices,   \* Model::boneMatrices (absolute transforms)
    mEffectCache,   \* Model::mEffectCache
    args,           \* what the caller passes to the draws: [nbones, boneTransforms, wireframe, setCustomState]
    call,           \* the last entry point called
    cmds,           \* what the last call issued, in program order
    result,         \* how the last call ended
    visited,        \* the effects the last UpdateEffects handed to the visitor
    firstDone,      \* an UpdateEffects call has completed
    firstVisited,   \* the set of effects the first UpdateEffects call visited
    rebound,        \* the last ModifyEffect call, if it succeeded, and the meshes it found
    iinputLayout,   \* the caller's layout pointer that CreateInputLayout writes through
    reads,          \* the reads of a transform array made by the last call: [index, length]
    toneMap,        \* ToneMapPostProcess::Impl and the contents of its constant buffer
    toneMapLog      \* what the calls on the post-process were, for the properties

vars == <<meshes, bones, boneMatrices, mEffectCache, args, call, cmds, result,
          visited, firstDone, firstVisited, rebound, iinputLayout, reads,
          toneMap, toneMapLog>>

\* ------------------------------------------------------------------ helpers
Range(s) == {s[i] : i \in 1..Len(s)}

\* One entry of the command stream.  mesh/part are 1-based positions (0: none),
\* pass is the alpha flag of the pass the entry was issued in.
Cmd(op, mi, pi, alpha, e, values) ==
    [op |-> op, mesh |-> mi, part |-> pi, pass |-> alpha, effect |-> e, args |-> values]

\* The running state of a call: the stream so far and the exception thrown.
Running(c) == [cmds |-> c, err |-> ""]
Thrown(c, e) == [cmds |-> c, err |-> e]

\* ------------------------------------------------------------ ModelMeshPart
\* A part draw that runs the hook before it applies the effect.
ModelMeshPart_Draw_HookFirst(c, mi, pi, part, alpha, setCustomState) ==
    LET bound == c \o << Cmd("IASetInputLayout", mi, pi, alpha, part.effect, <<part.inputLayout>>),
                         Cmd("IASetVertexBuffers", mi, pi, alpha, part.effect, <<>>),
                         Cmd("IASetIndexBuffer", mi, pi, alpha, part.effect, <<>>) >>
    IN  IF part.effect = NULL
        THEN Thrown(bound, NullEffect)
        ELSE Running(bound
                \o (IF setCustomState
                    THEN << Cmd("setCustomState", mi, pi, alpha, part.effect, <<>>) >>
                    ELSE << >>)
                \o << Cmd("Apply", mi, pi, alpha, part.effect, <<>>),
                      Cmd("IASetPrimitiveTopology", mi, pi, alpha, part.effect, <<>>),
                      Cmd("DrawIndexed", mi, pi, alpha, part.effect, <<>>) >>)

\* ModelMeshPart::Draw(deviceContext, ieffect, iinputLayout, setCustomState),
\* handed the part's own effect and input layout as ModelMesh hands them.
ModelMeshPart_Draw(c, mi, pi, part, alpha, setCustomState) ==
    LET bound == c \o << Cmd("IASetInputLayout", mi, pi, alpha, part.effect, <<part.inputLayout>>),
                         Cmd("IASetVertexBuffers", mi, pi, alpha, part.effect, <<>>),
                         Cmd("IASetIndexBuffer", mi, pi, alpha, part.effect, <<>>) >>
    IN  IF part.effect = NULL
        THEN Thrown(bound, NullEffect)
        ELSE Running(bound
                \o << Cmd("Apply", mi, pi, alpha, part.effect, <<>>) >>
                \o (IF setCustomState
                    THEN << Cmd("setCustomState", mi, pi, alpha, part.effect, <<>>) >>
                    ELSE << >>)
                \o << Cmd("IASetPrimitiveTopology", mi, pi, alpha, part.effect, <<>>),
                      Cmd("DrawIndexed", mi, pi, alpha, part.effect, <<>>) >>)

\* ModelMeshPart::DrawInstanced: the same commands, ended by an instanced draw.
ModelMeshPart_DrawInstanced(c, mi, pi, part, alpha, setCustomState) ==
    LET bound == c \o << Cmd("IASetInputLayout", mi, pi, alpha, part.effect, <<part.inputLayout>>),
                         Cmd("IASetVertexBuffers", mi, pi, alpha, part.effect, <<>>),
                         Cmd("IASetIndexBuffer", mi, pi, alpha, part.effect, <<>>) >>
    IN  IF part.effect = NULL
        THEN Thrown(bound, NullEffect)
        ELSE Running(bound
                \o << Cmd("Apply", mi, pi, alpha, part.effect, <<>>) >>
                \o (IF setCustomState
                    THEN << Cmd("setCustomState", mi, pi, alpha, part.effect, <<>>) >>
                    ELSE << >>)
                \o << Cmd("IASetPrimitiveTopology", mi, pi, alpha, part.effect, <<>>),
                      Cmd("DrawIndexedInstanced", mi, pi, alpha, part.effect, <<>>) >>)

\* ---------------------------------------------------------------- ModelMesh
\* A blend state chosen by the pass alone.
BlendState_PassOnly(mesh, alpha) ==
    IF alpha THEN "AlphaBlend" ELSE "Opaque"

BlendState(mesh, alpha) ==
    IF alpha THEN (IF mesh.pmalpha THEN "AlphaBlend" ELSE "NonPremultiplied") ELSE "Opaque"

DepthStencilState(mesh, alpha) ==
    IF alpha THEN "DepthRead" ELSE "DepthDefault"

RasterizerState(mesh, wireframe) ==
    IF wireframe THEN "Wireframe"
    ELSE IF mesh.ccw THEN "CullCounterClockwise" ELSE "CullClockwise"

\* A preparation that binds state for the first mesh and lets the others inherit it.
PrepareForRendering_FirstMeshOnly(c, mi, mesh, alpha, wireframe) ==
    IF mi # 1 THEN c
    ELSE c \o << Cmd("OMSetBlendState", mi, 0, alpha, NULL, <<BlendState(mesh, alpha)>>),
                 Cmd("OMSetDepthStencilState", mi, 0, alpha, NULL, <<DepthStencilState(mesh, alpha)>>),
                 Cmd("RSSetState", mi, 0, alpha, NULL, <<RasterizerState(mesh, wireframe)>>),
                 Cmd("PSSetSamplers", mi, 0, alpha, NULL, <<"LinearWrap", "LinearWrap">>) >>

PrepareForRendering(c, mi, mesh, alpha, wireframe) ==
    c \o << Cmd("OMSetBlendState", mi, 0, alpha, NULL, <<BlendState(mesh, alpha)>>),
            Cmd("OMSetDepthStencilState", mi, 0, alpha, NULL, <<DepthStencilState(mesh, alpha)>>),
            Cmd("RSSetState", mi, 0, alpha, NULL, <<RasterizerState(mesh, wireframe)>>),
            Cmd("PSSetSamplers", mi, 0, alpha, NULL, <<"LinearWrap", "LinearWrap">>) >>

\* A filter that lets every part into every pass.
PartInPass_Every(part, alpha) == TRUE

\* The pass filter: a part is drawn in the pass whose flag equals its isAlpha.
PartInPass(part, alpha) == part.isAlpha = alpha

\* The loop of ModelMesh::Draw from part pi on.
RECURSIVE MeshDrawFrom(_, _, _, _, _, _, _, _, _)
MeshDrawFrom(x, mi, mesh, pi, world, view, projection, alpha, setCustomState) ==
    IF x.err # "" \/ pi > Len(mesh.meshParts) THEN x
    ELSE LET part == mesh.meshParts[pi]
             pushed == IF IEffectMatrices(part.effect)
                       THEN x.cmds \o << Cmd("SetMatrices", mi, pi, alpha, part.effect,
                                             <<world, view, projection>>) >>
                       ELSE x.cmds
         IN  IF ~PartInPass(part, alpha)
             THEN MeshDrawFrom(x, mi, mesh, pi + 1, world, view, projection, alpha, setCustomState)
             ELSE MeshDrawFrom(ModelMeshPart_Draw(pushed, mi, pi, part, alpha, setCustomState),
                               mi, mesh, pi + 1, world, view, projection, alpha, setCustomState)

\* A loop that walks the parts from the last to the first.
RECURSIVE MeshDrawBackFrom(_, _, _, _, _, _, _, _, _)
MeshDrawBackFrom(x, mi, mesh, pi, world, view, projection, alpha, setCustomState) ==
    IF x.err # "" \/ pi < 1 THEN x
    ELSE LET part == mesh.meshParts[pi]
             pushed == IF IEffectMatrices(part.effect)
                       THEN x.cmds \o << Cmd("SetMatrices", mi, pi, alpha, part.effect,
                                             <<world, view, projection>>) >>
                       ELSE x.cmds
         IN  IF ~PartInPass(part, alpha)
             THEN MeshDrawBackFrom(x, mi, mesh, pi - 1, world, view, projection, alpha, setCustomState)
             ELSE MeshDrawBackFrom(ModelMeshPart_Draw(pushed, mi, pi, part, alpha, setCustomState),
                                   mi, mesh, pi - 1, world, view, projection, alpha, setCustomState)

\* A rigid draw that asks for bone influences as the skinned draw does.
ModelMesh_Draw_Checked(c, mi, mesh, world, view, projection, alpha, setCustomState) ==
    IF /\ mesh.boneInfluences = 0
       /\ \E pi \in 1..Len(mesh.meshParts) :
             PartInPass(mesh.meshParts[pi], alpha) /\ IEffectSkinning(mesh.meshParts[pi].effect)
    THEN Thrown(c, MissingSkinningData)
    ELSE MeshDrawFrom(Running(c), mi, mesh, 1, world, view, projection, alpha, setCustomState)

ModelMesh_Draw_Backwards(c, mi, mesh, world, view, projection, alpha, setCustomState) ==
    MeshDrawBackFrom(Running(c), mi, mesh, Len(mesh.meshParts), world, view, projection,
                     alpha, setCustomState)

ModelMesh_Draw(c, mi, mesh, world, view, projection, alpha, setCustomState) ==
    MeshDrawFrom(Running(c), mi, mesh, 1, world, view, projection, alpha, setCustomState)

\* A check of the pointer alone.
NoTransforms_NullOnly(nbones, boneTransforms) == boneTransforms.isNull

\* The argument check of the skinned draws: a count of zero or a null array.
NoTransforms(nbones, boneTransforms) == nbones = 0 \/ boneTransforms.isNull

\* A resolution that ignores the mesh's bone index.
BoneWorld_First(mesh, nbones, boneTransforms) == boneTransforms.data[1]

\* (boneIndex != c_Invalid && boneIndex < nbones) ? boneTransforms[boneIndex] : boneTransforms[0]
BoneWorld(mesh, nbones, boneTransforms) ==
    IF mesh.boneIndex # c_Invalid /\ mesh.boneIndex < nbones
    THEN boneTransforms.data[mesh.boneIndex + 1]
    ELSE boneTransforms.data[1]

\* An index that only the sentinel sends to element 0.
BoneSlot_SentinelOnly(mesh, nbones) ==
    IF mesh.boneIndex # c_Invalid THEN mesh.boneIndex ELSE 0

\* The index of the element that expression reads.
BoneSlot(mesh, nbones) ==
    IF mesh.boneIndex # c_Invalid /\ mesh.boneIndex < nbones THEN mesh.boneIndex ELSE 0

\* One read of a transform array: the index read and the length of the array.
Read(mesh, nbones, boneTransforms) ==
    [index |-> BoneSlot(mesh, nbones), length |-> Len(boneTransforms.data)]

\* A push that leaves the world matrix to the caller.
SkinnedPush_NoWorld(x, mi, pi, mesh, part, nbones, boneTransforms, view, projection, alpha) ==
    LET vp == IF IEffectMatrices(part.effect)
              THEN x.cmds \o << Cmd("SetView", mi, pi, alpha, part.effect, <<view>>),
                                Cmd("SetProjection", mi, pi, alpha, part.effect, <<projection>>) >>
              ELSE x.cmds
    IN  IF IEffectSkinning(part.effect) /\ mesh.boneInfluences = 0
        THEN Thrown(vp, MissingSkinningData)
        ELSE Running(vp)

\* A push that never looks at the bone influences.
SkinnedPush_Unchecked(x, mi, pi, mesh, part, nbones, boneTransforms, view, projection, alpha) ==
    LET vp == IF IEffectMatrices(part.effect)
              THEN x.cmds \o << Cmd("SetView", mi, pi, alpha, part.effect, <<view>>),
                                Cmd("SetProjection", mi, pi, alpha, part.effect, <<projection>>) >>
              ELSE x.cmds
    IN  IF IEffectSkinning(part.effect) \/ ~IEffectMatrices(part.effect)
        THEN Running(vp)
        ELSE Running(vp \o << Cmd("SetWorld", mi, pi, alpha, part.effect,
                                  <<BoneWorld(mesh, nbones, boneTransforms)>>) >>)

\* A push that sets view, projection and world together before it looks at skinning.
SkinnedPush_WorldFirst(x, mi, pi, mesh, part, nbones, boneTransforms, view, projection, alpha) ==
    LET vpw == IF IEffectMatrices(part.effect)
               THEN x.cmds \o << Cmd("SetView", mi, pi, alpha, part.effect, <<view>>),
                                 Cmd("SetProjection", mi, pi, alpha, part.effect, <<projection>>),
                                 Cmd("SetWorld", mi, pi, alpha, part.effect,
                                     <<BoneWorld(mesh, nbones, boneTransforms)>>) >>
               ELSE x.cmds
    IN  IF IEffectSkinning(part.effect) /\ mesh.boneInfluences = 0
        THEN Thrown(vpw, MissingSkinningData)
        ELSE Running(vpw)

\* What ModelMesh::DrawSkinned pushes into the effect of one part before it
\* draws it; throws when the effect skins and the mesh has no bone influences.
SkinnedPush(x, mi, pi, mesh, part, nbones, boneTransforms, view, projection, alpha) ==
    LET vp == IF IEffectMatrices(part.effect)
              THEN x.cmds \o << Cmd("SetView", mi, pi, alpha, part.effect, <<view>>),
                                Cmd("SetProjection", mi, pi, alpha, part.effect, <<projection>>) >>
              ELSE x.cmds
    IN  IF IEffectSkinning(part.effect)
        THEN IF mesh.boneInfluences = 0
             THEN Thrown(vp, MissingSkinningData)
             ELSE Running(vp)
        ELSE IF IEffectMatrices(part.effect)
             THEN Running(vp \o << Cmd("SetWorld", mi, pi, alpha, part.effect,
                                       <<BoneWorld(mesh, nbones, boneTransforms)>>) >>)
             ELSE Running(vp)

\* The loop of ModelMesh::DrawSkinned from part pi on.
RECURSIVE MeshDrawSkinnedFrom(_, _, _, _, _, _, _, _, _, _)
MeshDrawSkinnedFrom(x, mi, mesh, pi, nbones, boneTransforms, view, projection, alpha, setCustomState) ==
    IF x.err # "" \/ pi > Len(mesh.meshParts) THEN x
    ELSE LET part == mesh.meshParts[pi]
             pushed == SkinnedPush(x, mi, pi, mesh, part, nbones, boneTransforms,
                                   view, projection, alpha)
         IN  IF ~PartInPass(part, alpha)
             THEN MeshDrawSkinnedFrom(x, mi, mesh, pi + 1, nbones, boneTransforms,
                                      view, projection, alpha, setCustomState)
             ELSE IF pushed.err # "" THEN pushed
             ELSE MeshDrawSkinnedFrom(
                      ModelMeshPart_Draw(pushed.cmds, mi, pi, part, alpha, setCustomState),
                      mi, mesh, pi + 1, nbones, boneTransforms,
                      view, projection, alpha, setCustomState)

ModelMesh_DrawSkinned(c, mi, mesh, nbones, boneTransforms, view, projection, alpha, setCustomState) ==
    IF NoTransforms(nbones, boneTransforms)
    THEN Thrown(c, InvalidArgument)
    ELSE MeshDrawSkinnedFrom(Running(c), mi, mesh, 1, nbones, boneTransforms,
                             view, projection, alpha, setCustomState)

\* -------------------------------------------------------------------- Model
\* One pass of Model::Draw (world matrix) over the meshes from mi on.
RECURSIVE RigidPassFrom(_, _, _, _, _, _, _, _, _)
RigidPassFrom(x, ms, mi, world, view, projection, alpha, wireframe, setCustomState) ==
    IF x.err # "" \/ mi > Len(ms) THEN x
    ELSE RigidPassFrom(
             ModelMesh_Draw(PrepareForRendering(x.cmds, mi, ms[mi], alpha, wireframe),
                            mi, ms[mi], world, view, projection, alpha, setCustomState),
             ms, mi + 1, world, view, projection, alpha, wireframe, setCustomState)

\* A draw that finishes both passes for each mesh before it moves to the next.
RECURSIVE RigidPerMeshFrom(_, _, _, _, _, _, _, _)
RigidPerMeshFrom(x, ms, mi, world, view, projection, wireframe, setCustomState) ==
    IF x.err # "" \/ mi > Len(ms) THEN x
    ELSE LET opaque == ModelMesh_Draw(PrepareForRendering(x.cmds, mi, ms[mi], FALSE, wireframe),
                                      mi, ms[mi], world, view, projection, FALSE, setCustomState)
             both == IF opaque.err # "" THEN opaque
                     ELSE ModelMesh_Draw(PrepareForRendering(opaque.cmds, mi, ms[mi], TRUE, wireframe),
                                         mi, ms[mi], world, view, projection, TRUE, setCustomState)
         IN  RigidPerMeshFrom(both, ms, mi + 1, world, view, projection, wireframe, setCustomState)

Model_Draw_PerMesh(ms, world, view, projection, wireframe, setCustomState) ==
    RigidPerMeshFrom(Running(<< >>), ms, 1, world, view, projection, wireframe, setCustomState)

Model_Draw(ms, world, view, projection, wireframe, setCustomState) ==
    RigidPassFrom(
        RigidPassFrom(Running(<< >>), ms, 1, world, view, projection, FALSE, wireframe, setCustomState),
        ms, 1, world, view, projection, TRUE, wireframe, setCustomState)

\* One pass of Model::Draw (bone-transform array) over the meshes from mi on.
RECURSIVE BonesPassFrom(_, _, _, _, _, _, _, _, _, _)
BonesPassFrom(x, ms, mi, nbones, boneTransforms, view, projection, alpha, wireframe, setCustomState) ==
    IF x.err # "" \/ mi > Len(ms) THEN x
    ELSE BonesPassFrom(
             ModelMesh_Draw(PrepareForRendering(x.cmds, mi, ms[mi], alpha, wireframe),
                            mi, ms[mi], BoneWorld(ms[mi], nbones, boneTransforms),
                            view, projection, alpha, setCustomState),
             ms, mi + 1, nbones, boneTransforms, view, projection, alpha, wireframe, setCustomState)

BonesPasses(ms, nbones, boneTransforms, view, projection, wireframe, setCustomState) ==
    BonesPassFrom(
        BonesPassFrom(Running(<< >>), ms, 1, nbones, boneTransforms, view, projection,
                      FALSE, wireframe, setCustomState),
        ms, 1, nbones, boneTransforms, view, projection, TRUE, wireframe, setCustomState)

\* A transform array as the pointer the caller hands in.
NullArray == [isNull |-> TRUE, data |-> << >>]
Array(data) == [isNull |-> FALSE, data |-> data]

\* The array reads of the two passes of Model::Draw (bone-transform array): one
\* per mesh and pass, made when the argument of mesh->Draw is evaluated.
BonesReads(ms, nbones, boneTransforms) ==
    [k \in 1..(2 * Len(ms)) |-> Read(ms[((k - 1) % Len(ms)) + 1], nbones, boneTransforms)]

\* The array reads of Model::Draw (bone-transform array), after its substitution.
Model_DrawBones_Reads(ms, bs, bm, nbones, boneTransforms) ==
    IF NoTransforms(nbones, boneTransforms)
    THEN IF bs = << >> THEN << >> ELSE BonesReads(ms, Len(bs), Array(bm))
    ELSE BonesReads(ms, nbones, boneTransforms)

\* The array reads of a skinned draw that issued the stream c: one per SetWorld.
SkinnedReads(c, ms, nbones, boneTransforms) ==
    LET w == SelectSeq(c, LAMBDA d : d.op = "SetWorld")
    IN  [k \in 1..Len(w) |-> Read(ms[w[k].mesh], nbones, boneTransforms)]

\* A draw that, like DrawSkinned, refuses a missing array whatever bones the Model owns.
Model_DrawBones_Strict(ms, bs, bm, nbones, boneTransforms, view, projection, wireframe, setCustomState) ==
    IF NoTransforms(nbones, boneTransforms)
    THEN Thrown(<< >>, InvalidArgument)
    ELSE BonesPasses(ms, nbones, boneTransforms, view, projection, wireframe, setCustomState)

Model_DrawBones(ms, bs, bm, nbones, boneTransforms, view, projection, wireframe, setCustomState) ==
    IF NoTransforms(nbones, boneTransforms)
    THEN IF bs = << >>
         THEN Thrown(<< >>, InvalidArgument)
         ELSE BonesPasses(ms, Len(bs), Array(bm), view, projection, wireframe, setCustomState)
    ELSE BonesPasses(ms, nbones, boneTransforms, view, projection, wireframe, setCustomState)

\* One pass of Model::DrawSkinned over the meshes from mi on.
RECURSIVE SkinnedPassFrom(_, _, _, _, _, _, _, _, _, _)
SkinnedPassFrom(x, ms, mi, nbones, boneTransforms, view, projection, alpha, wireframe, setCustomState) ==
    IF x.err # "" \/ mi > Len(ms) THEN x
    ELSE SkinnedPassFrom(
             ModelMesh_DrawSkinned(PrepareForRendering(x.cmds, mi, ms[mi], alpha, wireframe),
                                   mi, ms[mi], nbones, boneTransforms,
                                   view, projection, alpha, setCustomState),
             ms, mi + 1, nbones, boneTransforms, view, projection, alpha, wireframe, setCustomState)

\* A draw that goes on to the alpha pass after the opaque pass has failed.
Model_DrawSkinned_Resumes(ms, nbones, boneTransforms, view, projection, wireframe, setCustomState) ==
    IF NoTransforms(nbones, boneTransforms)
    THEN Thrown(<< >>, InvalidArgument)
    ELSE LET opaque == SkinnedPassFrom(Running(<< >>), ms, 1, nbones, boneTransforms,
                                       view, projection, FALSE, wireframe, setCustomState)
             alpha == SkinnedPassFrom(Running(opaque.cmds), ms, 1, nbones, boneTransforms,
                                      view, projection, TRUE, wireframe, setCustomState)
         IN  [cmds |-> alpha.cmds, err |-> IF opaque.err # "" THEN opaque.err ELSE alpha.err]

Model_DrawSkinned(ms, nbones, boneTransforms, view, projection, wireframe, setCustomState) ==
    IF NoTransforms(nbones, boneTransforms)
    THEN Thrown(<< >>, InvalidArgument)
    ELSE SkinnedPassFrom(
             SkinnedPassFrom(Running(<< >>), ms, 1, nbones, boneTransforms, view, projection,
                             FALSE, wireframe, setCustomState),
             ms, 1, nbones, boneTransforms, view, projection, TRUE, wireframe, setCustomState)

\* An insert that keeps duplicates, as a vector's push_back would.
CacheInsert_Always(cache, e) == Append(cache, e)

\* Model::UpdateEffects: std::set<IEffect*>::insert, the set kept in insertion order.
CacheInsert(cache, e) ==
    IF e \in Range(cache) THEN cache ELSE Append(cache, e)

\* The inner loop: the parts of one mesh from pi on.
RECURSIVE CachePartsFrom(_, _, _)
CachePartsFrom(cache, parts, pi) ==
    IF pi > Len(parts) THEN cache
    ELSE CachePartsFrom(IF parts[pi].effect # NULL
                        THEN CacheInsert(cache, parts[pi].effect)
                        ELSE cache,
                        parts, pi + 1)

\* The outer loop: the meshes from mi on.
RECURSIVE CacheMeshesFrom(_, _, _)
CacheMeshesFrom(cache, ms, mi) ==
    IF mi > Len(ms) THEN cache
    ELSE CacheMeshesFrom(CachePartsFrom(cache, ms[mi].meshParts, 1), ms, mi + 1)

\* A cache that is collected afresh on every call.
Model_UpdateEffects_Rebuilt(cache, ms) == CacheMeshesFrom(<< >>, ms, 1)

\* The cache as UpdateEffects leaves it: filled when it was empty on entry.
Model_UpdateEffects(cache, ms) ==
    IF cache = << >> THEN CacheMeshesFrom(cache, ms, 1) ELSE cache

\* A rebinding that leaves the translucency flag as it was.
ModelMeshPart_ModifyEffect_KeepsFlag(part, ieffect, isalpha, factoryOk) ==
    IF part.vbDecl <= 0 \/ part.vbDecl > D3D11_IA_VERTEX_INPUT_STRUCTURE_ELEMENT_COUNT
    THEN [part |-> part, err |-> InvalidConfiguration, factory |-> FALSE]
    ELSE IF factoryOk
    THEN [part |-> [part EXCEPT !.effect = ieffect, !.inputLayout = ieffect],
          err |-> "", factory |-> TRUE]
    ELSE [part |-> [part EXCEPT !.effect = ieffect, !.inputLayout = NULL],
          err |-> "HResult", factory |-> TRUE]

\* ModelMeshPart::ModifyEffect on one part; factoryOk is whether
\* CreateInputLayoutFromEffect succeeds.
ModelMeshPart_ModifyEffect(part, ieffect, isalpha, factoryOk) ==
    IF part.vbDecl <= 0
    THEN [part |-> part, err |-> InvalidConfiguration, factory |-> FALSE]
    ELSE IF part.vbDecl > D3D11_IA_VERTEX_INPUT_STRUCTURE_ELEMENT_COUNT
    THEN [part |-> part, err |-> InvalidConfiguration, factory |-> FALSE]
    ELSE LET bound == [part EXCEPT !.effect = ieffect, !.isAlpha = isalpha]
         IN  IF factoryOk
             THEN [part |-> [bound EXCEPT !.inputLayout = ieffect], err |-> "", factory |-> TRUE]
             ELSE [part |-> [bound EXCEPT !.inputLayout = NULL], err |-> "HResult",
                   factory |-> TRUE]

\* A layout construction that also refuses a descriptor of exactly the limit.
ModelMeshPart_CreateInputLayout_Exclusive(part, ieffect, factoryOk) ==
    IF part.vbDecl <= 0 \/ part.vbDecl >= D3D11_IA_VERTEX_INPUT_STRUCTURE_ELEMENT_COUNT
    THEN [layout |-> NULL, err |-> InvalidConfiguration, factory |-> FALSE]
    ELSE IF factoryOk
    THEN [layout |-> ieffect, err |-> "", factory |-> TRUE]
    ELSE [layout |-> NULL, err |-> "HResult", factory |-> TRUE]

\* ModelMeshPart::CreateInputLayout: what it leaves in *iinputLayout, how it
\* ends, and whether it got as far as CreateInputLayoutFromEffect.
ModelMeshPart_CreateInputLayout(part, ieffect, factoryOk) ==
    IF part.vbDecl <= 0
    THEN [layout |-> NULL, err |-> InvalidConfiguration, factory |-> FALSE]
    ELSE IF part.vbDecl > D3D11_IA_VERTEX_INPUT_STRUCTURE_ELEMENT_COUNT
    THEN [layout |-> NULL, err |-> InvalidConfiguration, factory |-> FALSE]
    ELSE IF factoryOk
    THEN [layout |-> ieffect, err |-> "", factory |-> TRUE]
    ELSE [layout |-> NULL, err |-> "HResult", factory |-> TRUE]

\* ------------------------------------------------------ the models explored
\* A part; vbDecl is the number of elements of its vertex-layout descriptor,
\* or NoDecl when the part holds none.
Part(a, e) == [isAlpha |-> a, effect |-> e, inputLayout |-> e, vbDecl |-> 1]

NoDecl == -1

\* Descriptors that are missing, empty, smallest, exactly the limit and one above it.
Decls ==
    {NoDecl, 0, 1, D3D11_IA_VERTEX_INPUT_STRUCTURE_ELEMENT_COUNT,
     D3D11_IA_VERTEX_INPUT_STRUCTURE_ELEMENT_COUNT + 1}

PartsWithDecl(P, N) == { [p EXCEPT !.vbDecl = n] : p \in P, n \in N }

PartsOver(E) == { Part(a, e) : a \in BOOLEAN, e \in E }

\* The sequences over S of length n.
SeqsOf(S, n) == [1..n -> S]

\* Bone indexes of a mesh: the sentinel, the indexes of the longest array, and one past it.
BoneIndexes == {c_Invalid} \cup (0..MaxBones)

\* The meshes with n parts drawn from P, a bone index from B and a bone-influence
\* count from I; ccw and pmalpha as the constructor sets them.
MeshesOf(P, B, I, n) ==
    { [boneIndex |-> b, ccw |-> TRUE, pmalpha |-> TRUE, boneInfluences |-> i, meshParts |-> ps] :
        b \in B, i \in I, ps \in SeqsOf(P, n) }

\* The models of m meshes with at most budget parts in all.
RECURSIVE ModelsOf(_, _, _, _, _)
ModelsOf(P, B, I, m, budget) ==
    IF m = 0 THEN { << >> }
    ELSE UNION { { <<mesh>> \o rest : mesh \in MeshesOf(P, B, I, n),
                                      rest \in ModelsOf(P, B, I, m - 1, budget - n) } :
                 n \in 0..budget }

\* The models of 1..MaxMeshes meshes with at most MaxParts parts in all.
Models(P, B, I) == UNION { ModelsOf(P, B, I, m, MaxParts) : m \in 1..MaxMeshes }

\* The models of M with the winding and premultiplied-alpha flags of every mesh
\* set either way (both are public fields a loader assigns).
WithFlags(M) ==
    UNION { { [i \in 1..Len(ms) |-> [ms[i] EXCEPT !.ccw = f[i][1], !.pmalpha = f[i][2]]] :
                f \in [1..Len(ms) -> BOOLEAN \X BOOLEAN] } : ms \in M }

\* The arguments of a draw handed the longest caller array, with wireframe and
\* the custom-state hook from W and H.
LongArgs(W, H) ==
    { [nbones |-> MaxBones, boneTransforms |-> Array(SubSeq(CallerMatrices, 1, MaxBones)),
       wireframe |-> w, setCustomState |-> h] : w \in W, h \in H }

\* The transform arrays a caller hands in: null, or n >= 1 matrices.
CallerArrays == {NullArray} \cup { Array(SubSeq(CallerMatrices, 1, n)) : n \in 1..MaxBones }

\* The (count, array) pairs a caller hands in: the count is zero or the array's length.
CallerTransforms ==
    { <<n, a>> \in (0..MaxBones) \X CallerArrays : a.isNull \/ n \in {0, Len(a.data)} }

\* Of these, the four with the longest array or none: both present, either missing, both missing.
LongTransforms ==
    { t \in CallerTransforms : t[1] \in {0, MaxBones} /\ Len(t[2].data) \in {0, MaxBones} }

\* The arguments of a draw without wireframe and without a custom-state hook.
PlainArgs(T) ==
    { [nbones |-> t[1], boneTransforms |-> t[2], wireframe |-> FALSE, setCustomState |-> FALSE] :
        t \in T }

NoCall == [op |-> "none", mesh |-> 0, part |-> 0, alpha |-> FALSE, effect |-> NULL]

NoRebind == [mesh |-> 0, part |-> 0, effect |-> NULL, alpha |-> FALSE, old |-> << >>]

\* ------------------------------------------------- ToneMapPostProcess
\* (non-Xbox build: SetMRTOutput is compiled out, so mrt stays false)

Dirty_ConstantBuffer == 1
Dirty_Parameters == 2
INT_MAX == 2147483647
PixelShaderCount == 8
ShaderPermutationCount == 12

\* ToneMapPostProcess::Operator and ::TransferFunction, in the order the
\* permutation table lists them.
None == 0
Saturate == 1
Reinhard == 2
ACESFilmic == 3
Operator_Max == 4
Linear == 0
SRGB == 1
ST2084 == 2
TransferFunction_Max == 3

OutOfRange == "OutOfRange"
AssertFailed == "AssertFailed"

pixelShaders ==
    << "PSCopy", "PSSaturate", "PSReinhard", "PSFilmic",
       "PS_SRGB", "PSSaturate_SRGB", "PSReinhard_SRGB", "PSHDR10" >>

pixelShaderIndices ==
    << 0, 1, 2, 3,      \* Linear EOTF: Copy, Saturate, Reinhard, Filmic
       4, 5, 6, 3,      \* Gamma22 EOTF: SRGB, Saturate_SRGB, Reinhard_SRGB, Filmic
       7, 7, 7, 7 >>    \* ST2084 EOTF: HDR10

\* mDirtyFlags & bit, mDirtyFlags &= ~bit and mDirtyFlags |= bit for a
\* one-bit mask.
HasFlag(flags, bit) == (flags \div bit) % 2 = 1
ClearFlag(flags, bit) == IF HasFlag(flags, bit) THEN flags - bit ELSE flags
SetFlag(flags, bit) == IF HasFlag(flags, bit) THEN flags ELSE flags + bit

\* paperWhiteNits as the constructor sets it, and the values a caller passes.
DefaultNits == 200
NitsValues == {DefaultNits - 100, DefaultNits, DefaultNits + 100}
\* What the constant buffer holds before the first upload: zero (constants{})
\* is never uploaded by the constructor, so the GPU memory holds anything.
Uninitialized == {0} \cup NitsValues

\* ToneMapPostProcess::Impl::Impl; buffer is what mConstantBuffer holds on the GPU.
Impl(buffer) ==
    [ paperWhiteNits |-> DefaultNits, op |-> None, func |-> Linear, mrt |-> FALSE,
      mUseConstants |-> FALSE, mDirtyFlags |-> INT_MAX,
      constants |-> 0, mConstantBuffer |-> buffer ]

Impl_SetConstants(t, value) == [t EXCEPT !.mUseConstants = value, !.mDirtyFlags = INT_MAX]

\* SetDirtyFlag marking the constant buffer alone.
Impl_SetDirtyFlag_ConstantBufferOnly(t) ==
    [t EXCEPT !.mDirtyFlags = SetFlag(t.mDirtyFlags, Dirty_ConstantBuffer)]

Impl_SetDirtyFlag(t) == [t EXCEPT !.mDirtyFlags = INT_MAX]

\* The permutation index with operator and transfer function exchanged.
Impl_GetCurrentShaderPermutation_Transposed(t) == t.op * TransferFunction_Max + t.func

Impl_GetCurrentShaderPermutation(t) == t.func * Operator_Max + t.op

\* DeviceResources::GetPixelShader with its two assertions.
GetPixelShader(permutation) ==
    IF ~(permutation >= 0 /\ permutation < ShaderPermutationCount)
    THEN [shaderIndex |-> -1, err |-> AssertFailed]
    ELSE LET shaderIndex == pixelShaderIndices[permutation + 1]
         IN  IF ~(shaderIndex >= 0 /\ shaderIndex < PixelShaderCount)
             THEN [shaderIndex |-> shaderIndex, err |-> AssertFailed]
             ELSE [shaderIndex |-> shaderIndex, err |-> ""]

TCmd(op, values) == Cmd(op, 0, 0, FALSE, NULL, values)

\* The constant-buffer block of Impl::Process: [t, cmds].
Impl_Process_Constants(t) ==
    IF t.func = ST2084 \/ t.mrt
    THEN LET params == HasFlag(t.mDirtyFlags, Dirty_Parameters)
             t1 == IF params
                   THEN [t EXCEPT !.mDirtyFlags =
                                      SetFlag(ClearFlag(t.mDirtyFlags, Dirty_Parameters),
                                              Dirty_ConstantBuffer),
                                  !.constants = t.paperWhiteNits]
                   ELSE t
             upload == HasFlag(t1.mDirtyFlags, Dirty_ConstantBuffer)
             t2 == IF upload
                   THEN [t1 EXCEPT !.mDirtyFlags = ClearFlag(t1.mDirtyFlags, Dirty_ConstantBuffer),
                                   !.mConstantBuffer = t1.constants]
                   ELSE t1
         IN  [t |-> t2,
              cmds |-> (IF upload THEN << TCmd("SetData", << >>) >> ELSE << >>)
                       \o << TCmd("PSSetConstantBuffers", << >>) >>]
    ELSE [t |-> t, cmds |-> << >>]

\* ToneMapPostProcess::Impl::Process: [t, cmds, err].
Impl_Process(t, setCustomState) ==
    LET head == << TCmd("PSSetShaderResources", << >>), TCmd("PSSetSamplers", << >>) >>
        ps == GetPixelShader(Impl_GetCurrentShaderPermutation(t))
    IN  IF ps.err # ""
        THEN [t |-> t, cmds |-> head, err |-> ps.err]
        ELSE LET c == Impl_Process_Constants(t)
             IN  [t |-> c.t,
                  cmds |-> head
                           \o << TCmd("VSSetShader", << "VSQuad" >>),
                                 TCmd("PSSetShader", << pixelShaders[ps.shaderIndex + 1] >>) >>
                           \o c.cmds
                           \o (IF setCustomState THEN << TCmd("setCustomState", << >>) >>
                                                 ELSE << >>)
                           \o << TCmd("IASetPrimitiveTopology", << >>), TCmd("Draw", << >>) >>,
                  err |-> ""]

\* ToneMapPostProcess::SetOperator: [t, err].
ToneMapPostProcess_SetOperator(t, op) ==
    IF op < 0 \/ op >= Operator_Max
    THEN [t |-> t, err |-> OutOfRange]
    ELSE [t |-> [t EXCEPT !.op = op], err |-> ""]

\* SetTransferFunction assigning before it checks the range.
ToneMapPostProcess_SetTransferFunction_AssignsFirst(t, func) ==
    IF func < 0 \/ func >= TransferFunction_Max
    THEN [t |-> [t EXCEPT !.func = func], err |-> OutOfRange]
    ELSE [t |-> Impl_SetConstants([t EXCEPT !.func = func], func = ST2084), err |-> ""]

\* ToneMapPostProcess::SetTransferFunction: [t, err].
ToneMapPostProcess_SetTransferFunction(t, func) ==
    IF func < 0 \/ func >= TransferFunction_Max
    THEN [t |-> t, err |-> OutOfRange]
    ELSE [t |-> Impl_SetConstants([t EXCEPT !.func = func], func = ST2084), err |-> ""]

\* ToneMapPostProcess::SetHDR10Parameter.
ToneMapPostProcess_SetHDR10Parameter(t, paperWhiteNits) ==
    Impl_SetDirtyFlag([t EXCEPT !.paperWhiteNits = paperWhiteNits])

\* What the model remembers of the calls made on the post-process.
NoLog ==
    [ arg |-> 0,             \* the value the last setter was called with
      old |-> Impl(0),       \* the post-process as the last call found it
      requested |-> DefaultNits,   \* the value of the most recent SetHDR10Parameter
      fresh |-> FALSE,       \* an ST2084 Process has run and no setter was called since
      quiet |-> FALSE,       \* the last call was an ST2084 Process that found fresh set
      pending |-> "none",    \* "changed": the parameter was set under another transfer
                             \* function; "ran": and Process has run since
      crossed |-> FALSE ]    \* an ST2084 Process found pending = "ran", and only ST2084
                             \* Process calls followed it

\* A Model out of M with n of its own bones for some n in N, and the caller's
\* arguments out of A; nothing called yet.
InitModel(M, N, A) ==
    /\ meshes \in M
    /\ \E n \in N :
          /\ bones = [i \in 1..n |-> "bone"]
          /\ boneMatrices = SubSeq(OwnMatrices, 1, n)
    /\ args \in A
    /\ mEffectCache = << >>
    /\ call = NoCall
    /\ cmds = << >>
    /\ result = "none"
    /\ visited = << >>
    /\ firstDone = FALSE
    /\ firstVisited = {}
    /\ rebound = NoRebind
    /\ iinputLayout = "stale"
    /\ reads = << >>

\* The same beside a post-process nobody calls.
InitWith(M, N, A) ==
    /\ InitModel(M, N, A)
    /\ toneMap = Impl(0)
    /\ toneMapLog = NoLog

Outcome(x) == IF x.err = "" THEN OK ELSE x.err

\* What no draw touches: the model, its cache and the caller's arguments.
drawFrame ==
    <<meshes, bones, boneMatrices, mEffectCache, args, visited, firstDone, firstVisited, rebound,
      iinputLayout, toneMap, toneMapLog>>

\* ------------------------------------------------------------------ actions
\* Model::Draw(deviceContext, states, world, view, projection, wireframe, setCustomState)
Draw ==
    LET x == Model_Draw(meshes, World, View, Projection, args.wireframe, args.setCustomState)
    IN  /\ cmds' = x.cmds
        /\ result' = Outcome(x)
        /\ call' = [NoCall EXCEPT !.op = "Draw"]
        /\ reads' = << >>
        /\ UNCHANGED drawFrame

\* A draw whose substitution of the Model's own array reaches the caller's arguments.
DrawBones_Substituting ==
    LET x == Model_DrawBones(meshes, bones, boneMatrices, args.nbones, args.boneTransforms,
                             View, Projection, args.wireframe, args.setCustomState)
    IN  /\ cmds' = x.cmds
        /\ result' = Outcome(x)
        /\ call' = [NoCall EXCEPT !.op = "DrawBones"]
        /\ args' = IF NoTransforms(args.nbones, args.boneTransforms) /\ bones # << >>
                   THEN [args EXCEPT !.nbones = Len(bones), !.boneTransforms = Array(boneMatrices)]
                   ELSE args
        /\ reads' = Model_DrawBones_Reads(meshes, bones, boneMatrices,
                                          args.nbones, args.boneTransforms)
        /\ UNCHANGED <<meshes, bones, boneMatrices, mEffectCache, visited, firstDone,
                       firstVisited, rebound, iinputLayout, toneMap, toneMapLog>>

\* Model::Draw(deviceContext, states, nbones, boneTransforms, view, projection, ...)
DrawBones ==
    LET x == Model_DrawBones(meshes, bones, boneMatrices, args.nbones, args.boneTransforms,
                             View, Projection, args.wireframe, args.setCustomState)
    IN  /\ cmds' = x.cmds
        /\ result' = Outcome(x)
        /\ call' = [NoCall EXCEPT !.op = "DrawBones"]
        /\ reads' = Model_DrawBones_Reads(meshes, bones, boneMatrices, args.nbones, args.boneTransforms)
        /\ UNCHANGED drawFrame

\* Model::DrawSkinned(deviceContext, states, nbones, boneTransforms, view, projection, ...)
DrawSkinned ==
    LET x == Model_DrawSkinned(meshes, args.nbones, args.boneTransforms,
                               View, Projection, args.wireframe, args.setCustomState)
    IN  /\ cmds' = x.cmds
        /\ result' = Outcome(x)
        /\ call' = [NoCall EXCEPT !.op = "DrawSkinned"]
        /\ reads' = SkinnedReads(x.cmds, meshes, args.nbones, args.boneTransforms)
        /\ UNCHANGED drawFrame

\* ModelMesh::DrawSkinned called on one mesh for one pass.
MeshDrawSkinned ==
    \E mi \in 1..Len(meshes), alpha \in BOOLEAN :
        LET x == ModelMesh_DrawSkinned(<< >>, mi, meshes[mi], args.nbones, args.boneTransforms,
                                       View, Projection, alpha, args.setCustomState)
        IN  /\ cmds' = x.cmds
            /\ result' = Outcome(x)
            /\ call' = [NoCall EXCEPT !.op = "MeshDrawSkinned", !.mesh = mi, !.alpha = alpha]
            /\ reads' = SkinnedReads(x.cmds, meshes, args.nbones, args.boneTransforms)
            /\ UNCHANGED drawFrame

\* Model::UpdateEffects(setEffect): the visitor runs once per cache entry.
UpdateEffects ==
    /\ mEffectCache' = Model_UpdateEffects(mEffectCache, meshes)
    /\ visited' = mEffectCache'
    /\ firstDone' = TRUE
    /\ firstVisited' = IF firstDone THEN firstVisited ELSE Range(visited')
    /\ call' = [NoCall EXCEPT !.op = "UpdateEffects"]
    /\ cmds' = << >>
    /\ result' = OK
    /\ reads' = << >>
    /\ UNCHANGED <<meshes, bones, boneMatrices, args, rebound, iinputLayout, toneMap, toneMapLog>>

\* ModelMeshPart::ModifyEffect(d3dDevice, ieffect, isalpha) on part pi of mesh mi,
\* for an effect out of E, a flag out of A and a factory outcome out of F.
ModifyEffectOf(E, A, F) ==
    \E mi \in 1..Len(meshes) :
      \E pi \in 1..Len(meshes[mi].meshParts), e \in E, a \in A, factoryOk \in F :
        LET r == ModelMeshPart_ModifyEffect(meshes[mi].meshParts[pi], e, a, factoryOk)
        IN  /\ meshes' = [meshes EXCEPT ![mi].meshParts[pi] = r.part]
            /\ result' = Outcome(r)
            /\ call' = [NoCall EXCEPT !.op = "ModifyEffect", !.mesh = mi, !.part = pi,
                                      !.effect = e, !.alpha = a]
            /\ cmds' = IF r.factory
                       THEN << Cmd("CreateInputLayoutFromEffect", mi, pi, a, e, << >>) >>
                       ELSE << >>
            /\ rebound' = IF r.err = ""
                          THEN [mesh |-> mi, part |-> pi, effect |-> e, alpha |-> a, old |-> meshes]
                          ELSE [NoRebind EXCEPT !.old = meshes]
            /\ reads' = << >>
            /\ UNCHANGED <<bones, boneMatrices, mEffectCache, args,
                           visited, firstDone, firstVisited, iinputLayout, toneMap, toneMapLog>>

ModifyEffect == ModifyEffectOf(Effects, BOOLEAN, BOOLEAN)

\* ModelMesh::PrepareForRendering(deviceContext, states, alpha, wireframe) on mesh mi.
Prepare ==
    \E mi \in 1..Len(meshes), alpha \in BOOLEAN :
        /\ cmds' = PrepareForRendering(<< >>, mi, meshes[mi], alpha, args.wireframe)
        /\ result' = OK
        /\ call' = [NoCall EXCEPT !.op = "PrepareForRendering", !.mesh = mi, !.alpha = alpha]
        /\ reads' = << >>
        /\ UNCHANGED drawFrame

\* ModelMeshPart::CreateInputLayout(d3dDevice, ieffect, &iinputLayout) on part
\* pi of mesh mi, for an effect out of E and a factory outcome out of F.
CreateInputLayoutOf(E, F) ==
    \E mi \in 1..Len(meshes) :
      \E pi \in 1..Len(meshes[mi].meshParts), e \in E, factoryOk \in F :
        LET r == ModelMeshPart_CreateInputLayout(meshes[mi].meshParts[pi], e, factoryOk)
        IN  /\ iinputLayout' = r.layout
            /\ result' = Outcome(r)
            /\ call' = [NoCall EXCEPT !.op = "CreateInputLayout", !.mesh = mi, !.part = pi,
                                      !.effect = e]
            /\ cmds' = IF r.factory
                       THEN << Cmd("CreateInputLayoutFromEffect", mi, pi, FALSE, e, << >>) >>
                       ELSE << >>
            /\ reads' = << >>
            /\ UNCHANGED <<meshes, bones, boneMatrices, mEffectCache, args,
                           visited, firstDone, firstVisited, rebound, toneMap, toneMapLog>>

\* ModelMesh::Draw called on one mesh for one pass.
MeshDraw ==
    \E mi \in 1..Len(meshes), alpha \in BOOLEAN :
        LET x == ModelMesh_Draw(<< >>, mi, meshes[mi], World, View, Projection,
                                alpha, args.setCustomState)
        IN  /\ cmds' = x.cmds
            /\ result' = Outcome(x)
            /\ call' = [NoCall EXCEPT !.op = "MeshDraw", !.mesh = mi, !.alpha = alpha]
            /\ reads' = << >>
            /\ UNCHANGED drawFrame

\* ModelMeshPart::Draw called on one part with its own effect and input layout.
PartDraw ==
    \E mi \in 1..Len(meshes) :
      \E pi \in 1..Len(meshes[mi].meshParts) :
        LET part == meshes[mi].meshParts[pi]
            x == ModelMeshPart_Draw(<< >>, mi, pi, part, part.isAlpha, args.setCustomState)
        IN  /\ cmds' = x.cmds
            /\ result' = Outcome(x)
            /\ call' = [NoCall EXCEPT !.op = "PartDraw", !.mesh = mi, !.part = pi,
                                      !.alpha = part.isAlpha, !.effect = part.effect]
            /\ reads' = << >>
            /\ UNCHANGED drawFrame

\* ModelMeshPart::DrawInstanced called on one part with its own effect and input layout.
PartDrawInstanced ==
    \E mi \in 1..Len(meshes) :
      \E pi \in 1..Len(meshes[mi].meshParts) :
        LET part == meshes[mi].meshParts[pi]
            x == ModelMeshPart_DrawInstanced(<< >>, mi, pi, part, part.isAlpha, args.setCustomState)
        IN  /\ cmds' = x.cmds
            /\ result' = Outcome(x)
            /\ call' = [NoCall EXCEPT !.op = "PartDrawInstanced", !.mesh = mi, !.part = pi,
                                      !.alpha = part.isAlpha, !.effect = part.effect]
            /\ reads' = << >>
            /\ UNCHANGED drawFrame

\* ----------------------------------------------------------- specifications
\* The three Model draws over models that mix opaque and alpha parts, bound to
\* effects with and without skinning, in meshes with and without bone influences.
InitPasses ==
    InitWith(Models(PartsOver({"fxMatrices", "fxSkinnedMatrices"}), {c_Invalid}, {0, 1}),
             {0, MaxBones}, PlainArgs(LongTransforms))
NextPasses == Draw \/ DrawBones \/ DrawSkinned
SpecPasses == InitPasses /\ [][NextPasses]_vars

\* Model::Draw with a bone-transform array, over models whose meshes carry every
\* kind of bone index, with and without bones of the Model's own.
InitBones ==
    InitWith(Models(PartsOver({"fxMatrices"}), BoneIndexes, {0}),
             {0, MaxBones}, PlainArgs(CallerTransforms))
NextBones == DrawBones
SpecBones == InitBones /\ [][NextBones]_vars

\* The skinned draws, of the Model and of one mesh, over models that mix
\* skinning and non-skinning effects in meshes with and without bone influences.
InitSkinned ==
    InitWith(Models(PartsOver({"fxMatrices", "fxSkinnedMatrices"}), {c_Invalid}, {0, 1}),
             {0, MaxBones}, PlainArgs(LongTransforms))
NextSkinned == DrawSkinned \/ MeshDrawSkinned \/ DrawBones
SpecSkinned == InitSkinned /\ [][NextSkinned]_vars

\* The skinned draws over one-mesh models whose parts are bound to effects of
\* every capability set, for every kind of bone index and every array length.
InitCaps ==
    InitWith(ModelsOf(PartsOver(Effects), BoneIndexes, {0, 1}, 1, MaxParts),
             {0}, PlainArgs(CallerTransforms))
NextCaps == MeshDrawSkinned \/ DrawSkinned
SpecCaps == InitCaps /\ [][NextCaps]_vars

\* UpdateEffects between rebindings, over models whose parts start unbound or
\* bound to one of two effects, shared or not.
CachedEffects == {"fxBasic", "fxMatrices"}
Rebind == ModifyEffectOf(CachedEffects, {FALSE}, {TRUE})
InitEffects ==
    InitWith(Models({ Part(FALSE, e) : e \in CachedEffects \cup {NULL} }, {c_Invalid}, {0}),
             {0}, PlainArgs({ <<0, NullArray>> }))
NextEffects == UpdateEffects \/ Rebind
SpecEffects == InitEffects /\ [][NextEffects]_vars

\* PrepareForRendering alone and inside the three Model draws, over models whose
\* meshes carry every combination of winding and premultiplied-alpha flag, with
\* and without wireframe.
InitStates ==
    InitWith(WithFlags(Models(PartsOver({"fxMatrices"}), {c_Invalid}, {1})),
             {0}, LongArgs(BOOLEAN, {FALSE}))
NextStates == Prepare \/ Draw \/ DrawBones \/ DrawSkinned
SpecStates == InitStates /\ [][NextStates]_vars

\* The part draws alone and inside the mesh and Model draws, with and without
\* a custom-state hook, over models that mix opaque and alpha parts.
InitParts ==
    InitWith(Models(PartsOver({"fxMatrices"}), {c_Invalid}, {1}),
             {0}, LongArgs({FALSE}, BOOLEAN))
NextParts ==
    PartDraw \/ PartDrawInstanced \/ MeshDraw \/ MeshDrawSkinned
        \/ Draw \/ DrawBones \/ DrawSkinned
SpecParts == InitParts /\ [][NextParts]_vars

\* The three Model draws between rebindings of parts to effects with and
\* without matrix injection, into either pass.
RebindEffects == {"fxBasic", "fxMatrices"}
RebindAny == ModifyEffectOf(RebindEffects, BOOLEAN, {TRUE})
InitRebind ==
    InitWith(Models(PartsOver(RebindEffects), {c_Invalid}, {1}),
             {0}, LongArgs({FALSE}, {FALSE}))
NextRebind == RebindAny \/ Draw \/ DrawBones \/ DrawSkinned
SpecRebind == InitRebind /\ [][NextRebind]_vars

\* Layout construction and rebinding over one-mesh models whose parts hold a
\* descriptor that is missing, empty, small, exactly the limit or above it,
\* with the layout factory succeeding or failing.
LayoutEffects == {"fxMatrices"}
RebindLayout == ModifyEffectOf(LayoutEffects, {TRUE}, BOOLEAN)
CreateInputLayout == CreateInputLayoutOf(LayoutEffects, BOOLEAN)
InitLayout ==
    InitWith(ModelsOf(PartsWithDecl({Part(FALSE, "fxBasic")}, Decls), {c_Invalid}, {1}, 1, MaxParts),
             {0}, LongArgs({FALSE}, {FALSE}))
NextLayout == RebindLayout \/ CreateInputLayout
SpecLayout == InitLayout /\ [][NextLayout]_vars

\* Every draw entry point of Model and ModelMesh, with the caller's array
\* present or missing and bones of the Model's own or none, before and after
\* the effect cache is built.
InitFrame ==
    InitWith(Models(PartsOver({"fxMatrices"}), {c_Invalid}, {1}),
             {0, MaxBones}, PlainArgs(LongTransforms))
NextFrame ==
    Prepare \/ MeshDraw \/ MeshDrawSkinned \/ Draw \/ DrawBones \/ DrawSkinned \/ UpdateEffects
SpecFrame == InitFrame /\ [][NextFrame]_vars

\* The rigid draws, of one mesh and of the Model in both forms, over one-mesh
\* models whose parts are bound to effects of every capability set, with and
\* without bone influences.
InitRigid ==
    InitWith(ModelsOf(PartsOver(Effects), {c_Invalid}, {0, 1}, 1, MaxParts),
             {0}, LongArgs({FALSE}, {FALSE}))
NextRigid == MeshDraw \/ Draw \/ DrawBones
SpecRigid == InitRigid /\ [][NextRigid]_vars

\* The draws that read a transform array, over one-mesh models with every kind
\* of bone index, every caller array and bones of the Model's own or none.
InitReads ==
    InitWith(ModelsOf(PartsOver({"fxMatrices"}), BoneIndexes, {1}, 1, MaxParts),
             {0, 1, MaxBones}, PlainArgs(CallerTransforms))
NextReads == DrawBones \/ MeshDrawSkinned \/ DrawSkinned
SpecReads == InitReads /\ [][NextReads]_vars

\* ------------------------------------------------- reading the command stream
IsDraw(c) == c.op = "DrawIndexed"

\* The draw calls of the last call, in the order issued.
DrawCalls == SelectSeq(cmds, IsDraw)

\* The part a command was issued for.
PartOf(c) == meshes[c.mesh].meshParts[c.part]

\* All (mesh, part) positions of the model.
AllParts ==
    UNION { { <<mi, pi>> : pi \in 1..Len(meshes[mi].meshParts) } : mi \in 1..Len(meshes) }

ModelDraws == {"Draw", "DrawBones", "DrawSkinned"}

\* The last call was one of the three Model draws and returned normally.
CompletedDraw == call.op \in ModelDraws /\ result = OK

\* --------------------------------------------------------------------- C1
\* C1: in a completed Model::Draw (world), Model::Draw (bone array) or
\* Model::DrawSkinned, every draw call of an opaque part (isAlpha = FALSE) is
\* issued before every draw call of an alpha part (isAlpha = TRUE), across all
\* meshes of the model.
C1_OpaqueBeforeAlpha ==
    CompletedDraw =>
        \A i, j \in 1..Len(DrawCalls) :
            (~PartOf(DrawCalls[i]).isAlpha /\ PartOf(DrawCalls[j]).isAlpha) => i < j

\* A completed draw of a model whose first mesh holds an alpha part and whose
\* second mesh holds an opaque part: the opaque part of the later mesh is drawn first.
C1_Witness ==
    /\ CompletedDraw
    /\ Len(meshes) = 2
    /\ \E p \in 1..Len(meshes[1].meshParts) : meshes[1].meshParts[p].isAlpha
    /\ \E p \in 1..Len(meshes[2].meshParts) : ~meshes[2].meshParts[p].isAlpha
    /\ Len(DrawCalls) = 2
    /\ DrawCalls[1].mesh = 2 /\ DrawCalls[2].mesh = 1

\* --------------------------------------------------------------------- C2
\* The draw calls of the last call issued in the pass with flag alpha.
IsOpaquePassDraw(c) == IsDraw(c) /\ ~c.pass
IsAlphaPassDraw(c) == IsDraw(c) /\ c.pass

\* C2: in a completed Model draw every part is drawn exactly once, in the pass
\* that matches its isAlpha flag: the opaque pass issues exactly as many draw
\* calls as there are opaque parts, the alpha pass exactly as many as there are
\* alpha parts, and no part is drawn in both passes or in neither.
C2_EachPartOnceInItsPass ==
    CompletedDraw =>
        /\ \A mp \in AllParts :
              \E i \in 1..Len(DrawCalls) :
                  /\ DrawCalls[i].mesh = mp[1] /\ DrawCalls[i].part = mp[2]
                  /\ DrawCalls[i].pass = meshes[mp[1]].meshParts[mp[2]].isAlpha
                  /\ \A j \in 1..Len(DrawCalls) :
                        (DrawCalls[j].mesh = mp[1] /\ DrawCalls[j].part = mp[2]) => j = i
        /\ Len(SelectSeq(cmds, IsOpaquePassDraw))
              = Cardinality({ mp \in AllParts : ~meshes[mp[1]].meshParts[mp[2]].isAlpha })
        /\ Len(SelectSeq(cmds, IsAlphaPassDraw))
              = Cardinality({ mp \in AllParts : meshes[mp[1]].meshParts[mp[2]].isAlpha })

\* The round trip of the specification: one opaque-only mesh and one alpha-only
\* mesh, drawn with the world-matrix Draw, give one opaque then one alpha draw call.
C2_Witness ==
    /\ call.op = "Draw" /\ result = OK
    /\ Len(meshes) = 2
    /\ Len(meshes[1].meshParts) = 1 /\ ~meshes[1].meshParts[1].isAlpha
    /\ Len(meshes[2].meshParts) = 1 /\ meshes[2].meshParts[1].isAlpha
    /\ Len(DrawCalls) = 2
    /\ ~DrawCalls[1].pass /\ DrawCalls[1].mesh = 1
    /\ DrawCalls[2].pass /\ DrawCalls[2].mesh = 2

\* --------------------------------------------------------------------- C3
IsSetMatrices(c) == c.op = "SetMatrices"

\* Element k (0-based) of the array arr when k indexes it, else element 0.
ElementOrFirst(arr, k) == IF k \in 0..(Len(arr) - 1) THEN arr[k + 1] ELSE arr[1]

\* Every draw call of the stream follows a SetMatrices for the same part in the
\* same pass, and every SetMatrices pushes the world w(mesh) with View and Projection.
RigidPushes(w(_)) ==
    /\ \A i \in 1..Len(cmds) :
          IsSetMatrices(cmds[i]) =>
              cmds[i].args = << w(meshes[cmds[i].mesh]), View, Projection >>
    /\ \A i \in 1..Len(cmds) :
          IsDraw(cmds[i]) =>
              \E j \in 1..(i - 1) :
                  /\ IsSetMatrices(cmds[j])
                  /\ cmds[j].mesh = cmds[i].mesh /\ cmds[j].part = cmds[i].part
                  /\ cmds[j].pass = cmds[i].pass

CallerWorld(mesh) == ElementOrFirst(SubSeq(args.boneTransforms.data, 1, args.nbones), mesh.boneIndex)

\* The caller handed Model::Draw (bone array) a non-null array and a count n >= 1.
DrewBonesWithArray ==
    call.op = "DrawBones" /\ args.nbones >= 1 /\ ~args.boneTransforms.isNull

\* C3: in Model::Draw (bone array) with a transform array of length n >= 1, in
\* both passes the world matrix handed to the parts of a mesh is transforms[k]
\* when the mesh's boneIndex k is not the sentinel and k < n, and transforms[0]
\* when boneIndex is the sentinel or k >= n.
C3_BoneIndexOrFirst ==
    DrewBonesWithArray => (result = OK /\ RigidPushes(CallerWorld))

\* A two-element array drawn over a mesh bound to bone 1 and a mesh bound to
\* bone 2: the first gets transforms[1], the second falls back to transforms[0].
C3_Witness ==
    /\ DrewBonesWithArray /\ args.nbones = 2
    /\ \E i, j \in 1..Len(cmds) :
          /\ IsSetMatrices(cmds[i]) /\ meshes[cmds[i].mesh].boneIndex = 1
          /\ cmds[i].args[1] = CallerMatrices[2]
          /\ IsSetMatrices(cmds[j]) /\ meshes[cmds[j].mesh].boneIndex = 2
          /\ cmds[j].args[1] = CallerMatrices[1]

\* --------------------------------------------------------------------- C4
OwnWorld(mesh) == ElementOrFirst(SubSeq(boneMatrices, 1, Len(bones)), mesh.boneIndex)

\* The caller handed Model::Draw (bone array) a null array or a count of zero.
DrewBonesWithoutArray ==
    call.op = "DrawBones" /\ (args.nbones = 0 \/ args.boneTransforms.isNull)

\* What the same draw issues when the caller supplies count and array explicitly.
DrawnWithOwnArraySupplied ==
    Model_DrawBones(meshes, bones, boneMatrices, Len(bones), Array(boneMatrices),
                    View, Projection, args.wireframe, args.setCustomState)

\* C4: Model::Draw (bone array) called with a null array or a zero count fails
\* with InvalidArgument and issues nothing when the Model has no bones;
\* otherwise it resolves every mesh against the Model's own bone count and
\* absolute-transform array by the same index-or-first rule, and issues exactly
\* the stream of a call that is handed that array by the caller.
C4_OwnArraySubstituted ==
    DrewBonesWithoutArray =>
        /\ (bones = << >>) => (result = InvalidArgument /\ cmds = << >>)
        /\ (bones # << >>) =>
              /\ result = OK
              /\ RigidPushes(OwnWorld)
              /\ cmds = DrawnWithOwnArraySupplied.cmds

\* A draw without an array over a Model with bones, one mesh bound to bone 1:
\* that mesh is drawn with the Model's own absolute transform of bone 1.
C4_Witness ==
    /\ DrewBonesWithoutArray /\ bones # << >> /\ result = OK
    /\ \E i \in 1..Len(cmds) :
          /\ IsSetMatrices(cmds[i]) /\ meshes[cmds[i].mesh].boneIndex = 1
          /\ cmds[i].args[1] = OwnMatrices[2]

\* --------------------------------------------------------------------- C5
SkinnedDraws == {"DrawSkinned", "MeshDrawSkinned"}

\* The caller handed a skinned draw a null array or a count of zero.
DrewSkinnedWithoutArray ==
    call.op \in SkinnedDraws /\ (args.nbones = 0 \/ args.boneTransforms.isNull)

FailedMesh == IF call.op = "MeshDrawSkinned" THEN call.mesh ELSE cmds[Len(cmds)].mesh
FailedPass == IF call.op = "MeshDrawSkinned" THEN call.alpha ELSE cmds[Len(cmds)].pass

\* The parts of mesh mi that belong to the pass and are bound to a skinning effect.
SkinnedInPass(mi, alpha) ==
    { p \in 1..Len(meshes[mi].meshParts) :
        /\ meshes[mi].meshParts[p].isAlpha = alpha
        /\ IEffectSkinning(meshes[mi].meshParts[p].effect) }

\* The first of them in the declared part order.
FirstSkinned(mi, alpha) ==
    CHOOSE p \in SkinnedInPass(mi, alpha) : \A q \in SkinnedInPass(mi, alpha) : p <= q

\* The commands of the stream issued for mesh mi in the pass.
IssuedFor(mi, alpha) ==
    { i \in 1..Len(cmds) : cmds[i].mesh = mi /\ cmds[i].pass = alpha }

\* ModelMesh::DrawSkinned was called with a valid array on a mesh without bone
\* influences that holds a skinning part in the pass drawn.
MeshNeedsInfluences ==
    /\ call.op = "MeshDrawSkinned"
    /\ args.nbones >= 1 /\ ~args.boneTransforms.isNull
    /\ meshes[call.mesh].boneInfluences = 0
    /\ SkinnedInPass(call.mesh, call.alpha) # {}

SkinnedFailed == call.op \in SkinnedDraws /\ result = MissingSkinningData

\* C6 as claimed: such a draw fails with MissingSkinningData, and when a skinned
\* draw fails so no draw call has been issued for any part of the failing mesh.
C6_NoDrawOfFailingMesh ==
    /\ MeshNeedsInfluences => result = MissingSkinningData
    /\ SkinnedFailed =>
          \A i \in 1..Len(cmds) : IsDraw(cmds[i]) => cmds[i].mesh # FailedMesh

\* C6 (amended): such a draw fails with MissingSkinningData, and when a skinned
\* draw fails so, the draw calls issued for the failing mesh in the failing pass
\* are exactly those of the parts of the pass that precede its first skinning
\* part in the declared order: none for that part, none for a later one.
C6_DrawsOnlyBeforeSkinnedPart ==
    /\ MeshNeedsInfluences => result = MissingSkinningData
    /\ SkinnedFailed =>
          /\ meshes[FailedMesh].boneInfluences = 0
          /\ SkinnedInPass(FailedMesh, FailedPass) # {}
          /\ { cmds[i].part : i \in { j \in IssuedFor(FailedMesh, FailedPass) : IsDraw(cmds[j]) } }
                = { p \in 1..(FirstSkinned(FailedMesh, FailedPass) - 1) :
                      meshes[FailedMesh].meshParts[p].isAlpha = FailedPass }

\* A mesh without bone influences whose second part skins: the draw fails after
\* the first part of the same pass has been drawn.
C6_Witness ==
    /\ MeshNeedsInfluences /\ result = MissingSkinningData
    /\ FirstSkinned(call.mesh, call.alpha) = 2
    /\ \E i \in 1..Len(cmds) : IsDraw(cmds[i]) /\ cmds[i].part = 1

\* --------------------------------------------------------------------- C7
DrawFailed ==
    /\ call.op \in {"Draw", "DrawBones", "DrawSkinned", "MeshDrawSkinned"}
    /\ result \in {InvalidArgument, MissingSkinningData}

\* C7 as claimed: when a draw fails, nothing has been issued for the failing
\* mesh in the failing pass: no render state, no matrix push, no buffer
\* binding, no draw call.
C7_NothingIssuedForFailingMesh ==
    DrawFailed =>
        (cmds = << >> \/ IssuedFor(FailedMesh, FailedPass) = {})

PushOps == {"SetView", "SetProjection"}

\* C7 (amended): a draw that fails with InvalidArgument has issued nothing.  A
\* draw that fails with MissingSkinningData has issued, for the failing part and
\* the parts after it, only the view and projection pushes into the failing
\* part's effect (when it takes matrices): no world push, no buffer binding, no
\* effect apply, no draw call.  What came before stays issued: the parts that
\* precede it and, in Model::DrawSkinned, the mesh's PrepareForRendering.
C7_NothingIssuedForFailingPart ==
    /\ (DrawFailed /\ result = InvalidArgument) => cmds = << >>
    /\ (DrawFailed /\ result = MissingSkinningData) =>
          LET k == FirstSkinned(FailedMesh, FailedPass)
              e == meshes[FailedMesh].meshParts[k].effect
          IN  /\ \A i \in IssuedFor(FailedMesh, FailedPass) :
                    \/ cmds[i].part < k
                    \/ cmds[i].part = k /\ cmds[i].op \in PushOps
              /\ \A op \in PushOps :
                    IEffectMatrices(e) <=>
                        \E i \in IssuedFor(FailedMesh, FailedPass) :
                            cmds[i].part = k /\ cmds[i].op = op
              /\ call.op = "DrawSkinned" =>
                    \E i \in IssuedFor(FailedMesh, FailedPass) : cmds[i].op = "OMSetBlendState"

\* Model::DrawSkinned failing at the first part of a mesh: render state is bound
\* and view and projection are pushed, and nothing else, for that mesh and pass.
C7_Witness ==
    /\ call.op = "DrawSkinned" /\ result = MissingSkinningData
    /\ FirstSkinned(FailedMesh, FailedPass) = 1
    /\ { cmds[i].op : i \in IssuedFor(FailedMesh, FailedPass) }
          = {"OMSetBlendState", "OMSetDepthStencilState", "RSSetState", "PSSetSamplers",
             "SetView", "SetProjection"}

\* -------------------------------------------------------------------- C10
MatrixOps == {"SetView", "SetProjection", "SetWorld", "SetMatrices"}

\* The matrix pushes (operation, values) issued for the part and pass of the
\* draw call at position i, before that draw call.
PushesBefore(i) ==
    { <<cmds[j].op, cmds[j].args>> :
        j \in { k \in 1..(i - 1) : /\ cmds[k].op \in MatrixOps
                                   /\ cmds[k].mesh = cmds[i].mesh
                                   /\ cmds[k].part = cmds[i].part
                                   /\ cmds[k].pass = cmds[i].pass } }

\* What a skinned draw owes the effect e of a part of mesh: by capability alone.
SkinnedPushesDue(e, mesh) ==
    IF IEffectMatrices(e) /\ ~IEffectSkinning(e)
    THEN { <<"SetView", <<View>> >>, <<"SetProjection", <<Projection>> >>,
           <<"SetWorld", <<CallerWorld(mesh)>> >> }
    ELSE IF IEffectMatrices(e)
    THEN { <<"SetView", <<View>> >>, <<"SetProjection", <<Projection>> >> }
    ELSE { }

\* The passes the last skinned draw ran and the meshes it ran them on.
PassesRun == IF call.op = "MeshDrawSkinned" THEN {call.alpha} ELSE BOOLEAN
MeshesRun == IF call.op = "MeshDrawSkinned" THEN {call.mesh} ELSE 1..Len(meshes)

DrewSkinnedWithArray ==
    call.op \in SkinnedDraws /\ args.nbones >= 1 /\ ~args.boneTransforms.isNull

\* C10: in ModelMesh::DrawSkinned with a valid array of length n, what a drawn
\* part's effect receives depends on its capabilities alone: matrices without
\* skinning get view, projection and world = transforms[boneIndex] (boneIndex
\* valid and < n) or transforms[0]; matrices with skinning get view and
\* projection, no world; skinning alone and neither get nothing.  With bone
\* influences present on every mesh drawn, the call succeeds and every part of
\* the passes run is drawn, whatever its effect.
C10_PushesByCapability ==
    DrewSkinnedWithArray =>
        /\ \A i \in 1..Len(cmds) :
              IsDraw(cmds[i]) =>
                  PushesBefore(i) = SkinnedPushesDue(cmds[i].effect, meshes[cmds[i].mesh])
        /\ (\A mi \in MeshesRun : meshes[mi].boneInfluences # 0) =>
              /\ result = OK
              /\ \A mp \in AllParts :
                    (mp[1] \in MeshesRun /\ meshes[mp[1]].meshParts[mp[2]].isAlpha \in PassesRun)
                       => \E i \in 1..Len(cmds) :
                              /\ IsDraw(cmds[i])
                              /\ cmds[i].mesh = mp[1] /\ cmds[i].part = mp[2]
                              /\ cmds[i].effect = meshes[mp[1]].meshParts[mp[2]].effect

\* A mesh bound to bone 1, drawn with a two-element array: its part with
\* matrices alone gets transforms[1] as world, its part with matrices and
\* skinning gets view and projection only, and both are drawn.
C10_Witness ==
    /\ call.op = "MeshDrawSkinned" /\ result = OK /\ args.nbones = 2
    /\ meshes[call.mesh].boneIndex = 1
    /\ \E i, j \in 1..Len(cmds) :
          /\ IsDraw(cmds[i]) /\ cmds[i].effect = "fxMatrices"
          /\ <<"SetWorld", <<CallerMatrices[2]>> >> \in PushesBefore(i)
          /\ IsDraw(cmds[j]) /\ cmds[j].effect = "fxSkinnedMatrices"
          /\ PushesBefore(j) = { <<"SetView", <<View>> >>, <<"SetProjection", <<Projection>> >> }

\* --------------------------------------------------------------------- C8
\* How often the last UpdateEffects handed e to the visitor.
Visits(e) == Cardinality({ i \in 1..Len(visited) : visited[i] = e })

\* The effects bound to the parts of the model now.
BoundEffects ==
    { meshes[mp[1]].meshParts[mp[2]].effect : mp \in AllParts } \ {NULL}

\* C8: an UpdateEffects call invokes the visitor exactly once for every distinct
\* effect instance in the cache, however many parts share it, never for a null
\* binding and never for anything outside the cache.
C8_EachCachedEffectOnce ==
    call.op = "UpdateEffects" =>
        /\ \A e \in Range(mEffectCache) : Visits(e) = 1
        /\ \A e \in Range(visited) : e \in Range(mEffectCache) /\ e # NULL
        /\ \A e \in Effects : Cardinality({ i \in 1..Len(mEffectCache) : mEffectCache[i] = e }) <= 1

\* Two parts of different meshes share one effect: it is visited once.
C8_Witness ==
    /\ call.op = "UpdateEffects"
    /\ Len(meshes) = 2
    /\ Len(meshes[1].meshParts) = 1 /\ Len(meshes[2].meshParts) = 1
    /\ meshes[1].meshParts[1].effect # NULL
    /\ meshes[1].meshParts[1].effect = meshes[2].meshParts[1].effect
    /\ visited = << meshes[1].meshParts[1].effect >>

\* --------------------------------------------------------------------- C9
\* C9 as claimed: every UpdateEffects call visits exactly the set of effects the
\* first call visited, for every model and every rebinding in between.
C9_AlwaysTheFirstSet ==
    call.op = "UpdateEffects" => Range(visited) = firstVisited

\* C9 (amended): when the first UpdateEffects call finds at least one effect
\* bound, the cache is built in that call and never rebuilt: every later call
\* visits exactly the set the first call visited, whatever is rebound in
\* between.  (A first call that finds no effect bound leaves the cache empty,
\* and the next call collects it again.)
C9_FrozenOnceNonEmpty ==
    /\ (call.op = "UpdateEffects" /\ firstVisited # {}) => Range(visited) = firstVisited
    /\ firstVisited # {} => Range(mEffectCache) = firstVisited

\* An UpdateEffects call after a rebinding: it visits the first set, which is
\* no longer the set of effects bound.
C9_Witness ==
    /\ call.op = "UpdateEffects"
    /\ firstVisited # {}
    /\ BoundEffects # firstVisited
    /\ Range(visited) = firstVisited

\* -------------------------------------------------------------------- C11
\* The last call was PrepareForRendering on one mesh for one pass.
Prepared == call.op = "PrepareForRendering"

\* C11: PrepareForRendering binds, in this order, a blend state, a depth-stencil
\* state, a rasterizer state and two samplers that depend on the pass flag, the
\* mesh's pmalpha and ccw and the wireframe argument only: the opaque pass gives
\* Opaque with DepthDefault whatever pmalpha is; the alpha pass gives AlphaBlend
\* when pmalpha is set and NonPremultiplied otherwise, both with DepthRead; the
\* rasterizer is Wireframe when wireframe is requested whatever ccw is, else
\* CullCounterClockwise when ccw is set and CullClockwise otherwise; LinearWrap
\* is bound to sampler slots 0 and 1 in every case.
C11_StateByFlags ==
    Prepared =>
        LET mesh == meshes[call.mesh]
        IN  /\ result = OK
            /\ [i \in 1..Len(cmds) |-> cmds[i].op]
                  = <<"OMSetBlendState", "OMSetDepthStencilState", "RSSetState", "PSSetSamplers">>
            /\ ~call.alpha => /\ cmds[1].args = <<"Opaque">>
                              /\ cmds[2].args = <<"DepthDefault">>
            /\ (call.alpha /\ mesh.pmalpha) => /\ cmds[1].args = <<"AlphaBlend">>
                                               /\ cmds[2].args = <<"DepthRead">>
            /\ (call.alpha /\ ~mesh.pmalpha) => /\ cmds[1].args = <<"NonPremultiplied">>
                                                /\ cmds[2].args = <<"DepthRead">>
            /\ args.wireframe => cmds[3].args = <<"Wireframe">>
            /\ (~args.wireframe /\ mesh.ccw) => cmds[3].args = <<"CullCounterClockwise">>
            /\ (~args.wireframe /\ ~mesh.ccw) => cmds[3].args = <<"CullClockwise">>
            /\ cmds[4].args = <<"LinearWrap", "LinearWrap">>

\* The alpha pass of a clockwise mesh without premultiplied alpha, in wireframe:
\* NonPremultiplied and DepthRead are bound, and Wireframe although ccw is clear.
C11_Witness ==
    /\ Prepared /\ call.alpha /\ args.wireframe
    /\ ~meshes[call.mesh].pmalpha /\ ~meshes[call.mesh].ccw
    /\ cmds[1].args = <<"NonPremultiplied">>
    /\ cmds[3].args = <<"Wireframe">>

\* -------------------------------------------------------------------- C12
IsInstancedDraw(c) == c.op = "DrawIndexedInstanced"
IsHook(c) == c.op = "setCustomState"

\* The operations ModelMeshPart::Draw and DrawInstanced issue themselves.
PartOps ==
    {"IASetInputLayout", "IASetVertexBuffers", "IASetIndexBuffer", "Apply",
     "setCustomState", "IASetPrimitiveTopology", "DrawIndexed", "DrawIndexedInstanced"}
IsPartOp(c) == c.op \in PartOps

\* What one part draw is to issue, ended by the draw call named draw.
PartBlock(hook, draw) ==
    <<"IASetInputLayout", "IASetVertexBuffers", "IASetIndexBuffer", "Apply">>
        \o (IF hook THEN <<"setCustomState">> ELSE << >>)
        \o <<"IASetPrimitiveTopology", draw>>

\* The commands cmds[i-n+1..i] are one part draw: the operations of block, all
\* issued for the part and in the pass of cmds[i].
BlockEndsAt(i, block) ==
    LET n == Len(block)
    IN  /\ i >= n
        /\ \A k \in 1..n :
              /\ cmds[i - n + k].op = block[k]
              /\ cmds[i - n + k].mesh = cmds[i].mesh
              /\ cmds[i - n + k].part = cmds[i].part
              /\ cmds[i - n + k].pass = cmds[i].pass

PartCalls == {"PartDraw", "PartDrawInstanced"}
MeshDraws == {"MeshDraw", "MeshDrawSkinned"}

\* C12: a ModelMeshPart::Draw or DrawInstanced call issues, in this order, the
\* input layout, vertex buffer and index buffer bindings, the effect apply, the
\* custom-state hook if one was supplied, the primitive topology and exactly
\* one indexed (or instanced indexed) draw.  So in every Model or Mesh draw
\* each draw call ends such a block for its part, nothing a part draw issues
\* lies outside these blocks, and the hook runs exactly once per drawn part,
\* after that part's apply and before its draw call, never for a part whose
\* isAlpha differs from the pass.
C12_PartDrawOrder ==
    /\ call.op = "PartDraw" =>
          [i \in 1..Len(cmds) |-> cmds[i].op] = PartBlock(args.setCustomState, "DrawIndexed")
    /\ call.op = "PartDrawInstanced" =>
          [i \in 1..Len(cmds) |-> cmds[i].op]
              = PartBlock(args.setCustomState, "DrawIndexedInstanced")
    /\ call.op \in ModelDraws \cup MeshDraws =>
          LET block == PartBlock(args.setCustomState, "DrawIndexed")
          IN  /\ \A i \in 1..Len(cmds) : IsDraw(cmds[i]) => BlockEndsAt(i, block)
              /\ Len(SelectSeq(cmds, IsPartOp)) = Len(block) * Len(DrawCalls)
              /\ \A i \in 1..Len(cmds) : IsHook(cmds[i]) => PartOf(cmds[i]).isAlpha = cmds[i].pass
              /\ \A mp \in AllParts :
                    LET OfPart(c) == c.mesh = mp[1] /\ c.part = mp[2]
                        Hooked(c) == IsHook(c) /\ OfPart(c)
                        Drawn(c) == IsDraw(c) /\ OfPart(c)
                    IN  Len(SelectSeq(cmds, Hooked))
                            = IF args.setCustomState THEN Len(SelectSeq(cmds, Drawn)) ELSE 0

\* A completed Model::DrawSkinned with a hook over an opaque and an alpha part:
\* the hook ran twice, each time right after an apply and two commands before a
\* draw call of the same part.
C12_Witness ==
    /\ call.op = "DrawSkinned" /\ result = OK /\ args.setCustomState
    /\ Len(DrawCalls) = 2 /\ ~DrawCalls[1].pass /\ DrawCalls[2].pass
    /\ Len(SelectSeq(cmds, IsHook)) = 2
    /\ \A i \in 1..Len(cmds) :
          IsHook(cmds[i]) =>
              /\ cmds[i - 1].op = "Apply" /\ cmds[i - 1].part = cmds[i].part
              /\ IsDraw(cmds[i + 2]) /\ cmds[i + 2].part = cmds[i].part

\* -------------------------------------------------------------------- C13
\* The passes and the meshes the last draw was to cover.
PassesOfCall == IF call.op \in MeshDraws THEN {call.alpha} ELSE BOOLEAN
MeshesOfCall == IF call.op \in MeshDraws THEN {call.mesh} ELSE 1..Len(meshes)

\* Position p comes before position q in the (mesh order, part order) enumeration.
Before(p, q) == p[1] < q[1] \/ (p[1] = q[1] /\ p[2] < q[2])

\* The positions of S in the order of that enumeration.
Declared(S) ==
    [k \in 1..Cardinality(S) |->
        CHOOSE mp \in S : Cardinality({ q \in S : Before(q, mp) }) = k - 1]

\* The parts the last draw was to cover in pass a.
DueIn(a) ==
    { mp \in AllParts : mp[1] \in MeshesOfCall /\ meshes[mp[1]].meshParts[mp[2]].isAlpha = a }

\* The positions of the draw calls issued in pass a, in the order issued.
DrawnIn(a) ==
    LET InPass(c) == IsDraw(c) /\ c.pass = a
        d == SelectSeq(cmds, InPass)
    IN  [k \in 1..Len(d) |-> <<d[k].mesh, d[k].part>>]

\* C13: in every Mesh or Model draw nothing is issued for, and nothing pushed
\* into the effect of, a part whose isAlpha differs from the pass; and when the
\* draw completes, the draw calls of each pass are those of the parts whose
\* isAlpha equals the pass flag, each once, in mesh order and within a mesh in
\* declared part order.
C13_DeclaredOrder ==
    call.op \in ModelDraws \cup MeshDraws =>
        /\ \A i \in 1..Len(cmds) :
              /\ cmds[i].pass \in PassesOfCall /\ cmds[i].mesh \in MeshesOfCall
              /\ cmds[i].part # 0 => PartOf(cmds[i]).isAlpha = cmds[i].pass
        /\ result = OK =>
              \A a \in BOOLEAN :
                  DrawnIn(a) = IF a \in PassesOfCall THEN Declared(DueIn(a)) ELSE << >>

\* A completed mesh draw of the opaque pass over a mesh of two opaque parts:
\* part 1 is drawn before part 2.
C13_Witness ==
    /\ call.op = "MeshDraw" /\ result = OK /\ ~call.alpha
    /\ DrawnIn(FALSE) = << <<call.mesh, 1>>, <<call.mesh, 2>> >>
    /\ DrawnIn(TRUE) = << >>

\* -------------------------------------------------------------------- C14
\* The (pass, mesh) units of a Model draw in the order processed: the opaque
\* pass over all meshes, then the alpha pass over all meshes.
UnitBefore(u, v) == (~u[1] /\ v[1]) \/ (u[1] = v[1] /\ u[2] < v[2])

\* The units Model::DrawSkinned cannot get past: a mesh without bone
\* influences holding, in the pass, a part bound to a skinning effect.
FailingUnits ==
    { u \in BOOLEAN \X (1..Len(meshes)) :
        meshes[u[2]].boneInfluences = 0 /\ SkinnedInPass(u[2], u[1]) # {} }

FirstFailingUnit == CHOOSE u \in FailingUnits : \A v \in FailingUnits : u = v \/ UnitBefore(u, v)

\* The same model with a bone-influence mapping in every mesh.
WithInfluences(ms) == [i \in 1..Len(ms) |-> [ms[i] EXCEPT !.boneInfluences = 1]]

\* What the last Model::DrawSkinned would have issued had nothing failed.
UnfailingStream ==
    Model_DrawSkinned(WithInfluences(meshes), args.nbones, args.boneTransforms,
                      View, Projection, args.wireframe, args.setCustomState).cmds

DrewModelSkinned ==
    call.op = "DrawSkinned" /\ args.nbones >= 1 /\ ~args.boneTransforms.isNull

\* C14: Model::DrawSkinned handed a valid array fails exactly when some unit
\* holds a skinning part in a mesh without bone influences, and then aborts at
\* the first such unit: the stream is what the call issues up to the failing
\* part, kept as issued (a proper prefix of the stream of the unfailing call,
\* cut where the failing part's own draw would start), all units before the
\* failing one are complete, and nothing is issued for a later part, a later
\* mesh or the later pass.  A call that does not fail has bound the render
\* state of every mesh in both passes and drawn every part in its pass.
C14_AbortsAtFirstFailure ==
    DrewModelSkinned =>
        /\ result = (IF FailingUnits = {} THEN OK ELSE MissingSkinningData)
        /\ result = MissingSkinningData =>
              LET u == FirstFailingUnit
                  k == FirstSkinned(u[2], u[1])
                  full == UnfailingStream
                  n == Len(cmds)
              IN  /\ n < Len(full)
                  /\ cmds = SubSeq(full, 1, n)
                  /\ full[n + 1].op = "IASetInputLayout"
                  /\ full[n + 1].pass = u[1] /\ full[n + 1].mesh = u[2] /\ full[n + 1].part = k
                  /\ \A i \in 1..n :
                        \/ UnitBefore(<<cmds[i].pass, cmds[i].mesh>>, u)
                        \/ /\ <<cmds[i].pass, cmds[i].mesh>> = u
                           /\ cmds[i].part <= k
                           /\ cmds[i].part = k => cmds[i].op \in PushOps
                  /\ \A v \in BOOLEAN \X (1..Len(meshes)) :
                        UnitBefore(v, u) =>
                            /\ \E i \in 1..n : cmds[i].op = "OMSetBlendState"
                                                /\ cmds[i].pass = v[1] /\ cmds[i].mesh = v[2]
                            /\ \A p \in 1..Len(meshes[v[2]].meshParts) :
                                  meshes[v[2]].meshParts[p].isAlpha = v[1] =>
                                      \E i \in 1..n : /\ IsDraw(cmds[i]) /\ cmds[i].pass = v[1]
                                                      /\ cmds[i].mesh = v[2] /\ cmds[i].part = p
        /\ result = OK =>
              /\ \A v \in BOOLEAN \X (1..Len(meshes)) :
                    Len(SelectSeq(cmds, LAMBDA c : c.op = "OMSetBlendState"
                                                    /\ c.pass = v[1] /\ c.mesh = v[2])) = 1
              /\ \A a \in BOOLEAN : DrawnIn(a) = Declared(DueIn(a))

\* Model::DrawSkinned failing in the alpha pass at the second mesh: the opaque
\* draw of the first mesh stays in the stream, which ends with the failing
\* mesh's render state and the pushes into the failing part.
C14_Witness ==
    /\ DrewModelSkinned /\ result = MissingSkinningData
    /\ FirstFailingUnit = <<TRUE, 2>>
    /\ \E i \in 1..Len(cmds) : IsDraw(cmds[i]) /\ ~cmds[i].pass /\ cmds[i].mesh = 1
    /\ cmds[Len(cmds)].mesh = 2 /\ cmds[Len(cmds)].pass
    /\ ~ \E i \in 1..Len(cmds) : IsDraw(cmds[i]) /\ cmds[i].pass

\* -------------------------------------------------------------------- C15
\* The last ModifyEffect call succeeded, and only draws have been called since.
Rebound == rebound.mesh # 0

\* The draw calls issued for the part at position mp.
DrawsOf(mp) ==
    LET OfPart(c) == IsDraw(c) /\ c.mesh = mp[1] /\ c.part = mp[2]
    IN  SelectSeq(cmds, OfPart)

\* The input layouts bound for the part at position mp.
LayoutsOf(mp) ==
    LET OfPart(c) == c.op = "IASetInputLayout" /\ c.mesh = mp[1] /\ c.part = mp[2]
    IN  SelectSeq(cmds, OfPart)

\* C15: once ModifyEffect(device, e, a) has succeeded on a part, the part is
\* bound to e with isAlpha = a and the input layout generated for e, and every
\* other part of the model is as the call found it; every Model draw made from
\* then on draws the part once, in the pass whose flag is a and with effect e
\* and that layout, and draws every other part once in the pass and with the
\* effect it had before.
C15_ReboundPartFollowsNewBinding ==
    Rebound =>
        LET mp == <<rebound.mesh, rebound.part>>
            Was(q) == rebound.old[q[1]].meshParts[q[2]]
            Is(q) == meshes[q[1]].meshParts[q[2]]
        IN  /\ Is(mp).effect = rebound.effect
            /\ Is(mp).isAlpha = rebound.alpha
            /\ Is(mp).inputLayout = rebound.effect
            /\ [i \in 1..Len(meshes) |-> Len(meshes[i].meshParts)]
                  = [i \in 1..Len(rebound.old) |-> Len(rebound.old[i].meshParts)]
            /\ \A q \in AllParts \ {mp} : Is(q) = Was(q)
            /\ call.op \in ModelDraws =>
                  /\ result = OK
                  /\ Len(DrawsOf(mp)) = 1
                  /\ DrawsOf(mp)[1].pass = rebound.alpha
                  /\ DrawsOf(mp)[1].effect = rebound.effect
                  /\ LayoutsOf(mp) = << [DrawsOf(mp)[1] EXCEPT !.op = "IASetInputLayout",
                                                               !.args = <<rebound.effect>>] >>
                  /\ \A q \in AllParts \ {mp} :
                        /\ Len(DrawsOf(q)) = 1
                        /\ DrawsOf(q)[1].pass = Was(q).isAlpha
                        /\ DrawsOf(q)[1].effect = Was(q).effect

\* An opaque part rebound to another effect as an alpha part, then drawn:
\* its one draw call is in the alpha pass with the new effect, after the draw
\* of a part that stayed opaque.
C15_Witness ==
    /\ Rebound /\ call.op = "Draw" /\ result = OK
    /\ rebound.alpha
    /\ ~rebound.old[rebound.mesh].meshParts[rebound.part].isAlpha
    /\ rebound.old[rebound.mesh].meshParts[rebound.part].effect # rebound.effect
    /\ Len(DrawCalls) = 2
    /\ ~DrawCalls[1].pass
    /\ DrawCalls[2].pass /\ DrawCalls[2].effect = rebound.effect
    /\ DrawCalls[2].mesh = rebound.mesh /\ DrawCalls[2].part = rebound.part

\* -------------------------------------------------------------------- C16
LayoutCalls == {"CreateInputLayout", "ModifyEffect"}

\* The part the last layout call was made on, as the call found it.
PartBefore ==
    (IF call.op = "ModifyEffect" THEN rebound.old ELSE meshes)[call.mesh].meshParts[call.part]

\* The part as it is now.
PartAfter == meshes[call.mesh].meshParts[call.part]

IsFactoryCall(c) == c.op = "CreateInputLayoutFromEffect"

\* C16: CreateInputLayout and ModifyEffect fail with InvalidConfiguration
\* exactly when the part's vertex-layout descriptor is missing, is empty or has
\* more elements than D3D11_IA_VERTEX_INPUT_STRUCTURE_ELEMENT_COUNT (a
\* descriptor of exactly that many elements is accepted); when they fail so the
\* input-layout factory has not been called, and ModifyEffect has left the
\* part's effect, isAlpha and input layout as they were; otherwise the factory
\* has been called once.
C16_InvalidConfiguration ==
    call.op \in LayoutCalls =>
        /\ result = InvalidConfiguration <=>
              \/ PartBefore.vbDecl = NoDecl
              \/ PartBefore.vbDecl = 0
              \/ PartBefore.vbDecl > D3D11_IA_VERTEX_INPUT_STRUCTURE_ELEMENT_COUNT
        /\ result = InvalidConfiguration =>
              /\ SelectSeq(cmds, IsFactoryCall) = << >>
              /\ PartAfter.effect = PartBefore.effect
              /\ PartAfter.isAlpha = PartBefore.isAlpha
              /\ PartAfter.inputLayout = PartBefore.inputLayout
        /\ result # InvalidConfiguration => Len(SelectSeq(cmds, IsFactoryCall)) = 1

\* ModifyEffect refused on a part whose descriptor is one element over the
\* limit, while the same model holds a part of exactly the limit that has been
\* rebound: the refused part keeps the binding it had.
C16_Witness ==
    /\ call.op = "ModifyEffect" /\ result = InvalidConfiguration
    /\ PartBefore.vbDecl = D3D11_IA_VERTEX_INPUT_STRUCTURE_ELEMENT_COUNT + 1
    /\ PartAfter.effect # call.effect /\ PartAfter.isAlpha # call.alpha
    /\ \E p \in 1..Len(meshes[call.mesh].meshParts) :
          /\ meshes[call.mesh].meshParts[p].vbDecl = D3D11_IA_VERTEX_INPUT_STRUCTURE_ELEMENT_COUNT
          /\ meshes[call.mesh].meshParts[p].effect = call.effect

\* -------------------------------------------------------------------- C17
DrawOps ==
    {"Draw", "DrawBones", "DrawSkinned", "MeshDraw", "MeshDrawSkinned", "PrepareForRendering"}

\* C17: a step of Model::Draw (either form), Model::DrawSkinned,
\* ModelMesh::Draw, ModelMesh::DrawSkinned or PrepareForRendering, whether it
\* completes or fails, leaves the caller's transform count and array, the
\* Model's bones and absolute transforms, the meshes with their order, their
\* parts' order, isAlpha flags and effect bindings, and the effect cache as
\* they were; what it changes is the command stream, which carries the
\* matrices pushed into the effects of the parts drawn.
C17_DrawsChangeNothingElse ==
    [][ call'.op \in DrawOps =>
            /\ args' = args
            /\ bones' = bones
            /\ boneMatrices' = boneMatrices
            /\ meshes' = meshes
            /\ mEffectCache' = mEffectCache ]_vars

\* A completed Model::Draw that was handed no array and used the Model's own,
\* on a model whose effect cache has been built: the stream is not empty, the
\* caller's arguments still say null and the cache is still there.
C17_Witness ==
    /\ call.op = "DrawBones" /\ result = OK
    /\ args.boneTransforms.isNull /\ bones # << >>
    /\ mEffectCache # << >>
    /\ \E i \in 1..Len(cmds) : IsSetMatrices(cmds[i]) /\ cmds[i].args[1] = OwnMatrices[1]

\* -------------------------------------------------------------------- C18
RigidDraws == {"MeshDraw", "Draw", "DrawBones"}

\* The world matrix the last rigid draw hands to the parts of a mesh.
RigidWorld(mesh) == IF call.op = "DrawBones" THEN CallerWorld(mesh) ELSE World

\* The matrix pushes of the stream made into the effect of the part and in the
\* pass of command c.
PushesFor(c) ==
    LET Same(d) == d.op \in MatrixOps /\ d.mesh = c.mesh /\ d.part = c.part /\ d.pass = c.pass
    IN  SelectSeq(cmds, Same)

\* C18: ModelMesh::Draw and both forms of Model::Draw never fail with
\* MissingSkinningData, whatever the mesh's bone influences; every part they
\* draw whose effect takes matrices gets exactly one push, of world, view and
\* projection together, before its draw, also when the effect skins; a part
\* whose effect takes no matrices gets no push; and nothing is pushed by the
\* separate view, projection or world setters of the skinned path.
C18_RigidPushesOnlyMatrices ==
    call.op \in RigidDraws =>
        /\ result = OK
        /\ \A i \in 1..Len(cmds) : cmds[i].op \in MatrixOps => IsSetMatrices(cmds[i])
        /\ \A i \in 1..Len(cmds) :
              IsDraw(cmds[i]) =>
                  IF cmds[i].effect \in {"fxMatrices", "fxSkinnedMatrices"}
                  THEN /\ PushesFor(cmds[i])
                            = << [cmds[i] EXCEPT !.op = "SetMatrices",
                                                 !.args = << RigidWorld(meshes[cmds[i].mesh]),
                                                             View, Projection >>] >>
                       /\ \E j \in 1..(i - 1) : cmds[j] = PushesFor(cmds[i])[1]
                  ELSE PushesFor(cmds[i]) = << >>
        /\ Len(SelectSeq(cmds, IsSetMatrices))
              = Len(SelectSeq(cmds, LAMBDA c : IsDraw(c) /\ IEffectMatrices(c.effect)))

\* ModelMesh::Draw over a mesh without bone influences that holds a part bound
\* to a skinning effect with matrices and a part bound to a skinning effect
\* without: both are drawn, the first after one SetMatrices, the second bare.
C18_Witness ==
    /\ call.op = "MeshDraw" /\ result = OK
    /\ meshes[call.mesh].boneInfluences = 0
    /\ Len(DrawCalls) = 2
    /\ DrawCalls[1].effect = "fxSkinnedMatrices"
    /\ DrawCalls[2].effect = "fxSkinning"
    /\ Len(PushesFor(DrawCalls[1])) = 1 /\ PushesFor(DrawCalls[1])[1].args = <<World, View, Projection>>
    /\ PushesFor(DrawCalls[2]) = << >>

\* -------------------------------------------------------------------- C19
StateOps == <<"OMSetBlendState", "OMSetDepthStencilState", "RSSetState", "PSSetSamplers">>

\* The state PrepareForRendering is to select for a mesh in a pass.
SelectedState(op, mesh, alpha) ==
    CASE op = "OMSetBlendState" ->
            IF ~alpha THEN "Opaque" ELSE IF mesh.pmalpha THEN "AlphaBlend" ELSE "NonPremultiplied"
      [] op = "OMSetDepthStencilState" ->
            IF alpha THEN "DepthRead" ELSE "DepthDefault"
      [] op = "RSSetState" ->
            IF args.wireframe THEN "Wireframe"
            ELSE IF mesh.ccw THEN "CullCounterClockwise" ELSE "CullClockwise"
      [] op = "PSSetSamplers" -> "LinearWrap"

\* The last command before position i that binds a state of kind op (0: none).
LastBound(op, i) ==
    LET J == { j \in 1..(i - 1) : cmds[j].op = op }
    IN  IF J = {} THEN 0 ELSE CHOOSE j \in J : \A k \in J : k <= j

\* The four state bindings for mesh mi in pass alpha start at position i.
PreparedAt(i, mi, alpha) ==
    /\ i + 3 <= Len(cmds)
    /\ \A k \in 1..4 :
          /\ cmds[i + k - 1].op = StateOps[k]
          /\ cmds[i + k - 1].mesh = mi /\ cmds[i + k - 1].pass = alpha

\* C19: a completed Model::Draw (either form) or Model::DrawSkinned binds the
\* render state once for every mesh in each pass, also for a mesh with no part
\* in the pass, and what follows the binding up to the next one is issued for
\* the parts of that mesh in that pass; so with no custom-state hook, at every
\* draw call the blend, depth-stencil and rasterizer state bound last is the
\* one selected for the pass of the draw and for pmalpha and ccw of the mesh
\* that owns the part drawn.
C19_StateOfOwningMesh ==
    (CompletedDraw /\ ~args.setCustomState) =>
        /\ \A a \in BOOLEAN, mi \in 1..Len(meshes) :
              /\ Cardinality({ i \in 1..Len(cmds) : PreparedAt(i, mi, a) }) = 1
              /\ \A op \in Range(StateOps) :
                    Cardinality({ i \in 1..Len(cmds) :
                        cmds[i].op = op /\ cmds[i].mesh = mi /\ cmds[i].pass = a }) = 1
        /\ \A i \in 1..Len(cmds) :
              cmds[i].part # 0 =>
                  LET j == LastBound("PSSetSamplers", i)
                  IN  /\ j >= 4
                      /\ PreparedAt(j - 3, cmds[i].mesh, cmds[i].pass)
                      /\ \A k \in (j + 1)..i : cmds[k].part # 0
        /\ \A i \in 1..Len(cmds) :
              IsDraw(cmds[i]) =>
                  \A op \in Range(StateOps) \ {"PSSetSamplers"} :
                      LET j == LastBound(op, i)
                      IN  /\ j > 0
                          /\ cmds[j].mesh = cmds[i].mesh /\ cmds[j].pass = cmds[i].pass
                          /\ cmds[j].args
                                = << SelectedState(op, meshes[cmds[i].mesh], cmds[i].pass) >>

\* A completed draw of two meshes that differ in pmalpha and in ccw, each with
\* one alpha part and no opaque part: state is bound for both in the opaque
\* pass too, and each alpha draw is made under the state of its own mesh.
C19_Witness ==
    /\ CompletedDraw /\ ~args.setCustomState /\ ~args.wireframe
    /\ Len(meshes) = 2 /\ Len(DrawCalls) = 2
    /\ meshes[1].pmalpha /\ ~meshes[2].pmalpha
    /\ meshes[1].ccw /\ ~meshes[2].ccw
    /\ DrawCalls[1].pass /\ DrawCalls[1].mesh = 1
    /\ DrawCalls[2].pass /\ DrawCalls[2].mesh = 2
    /\ PreparedAt(1, 1, FALSE) /\ PreparedAt(5, 2, FALSE)
    /\ \E i \in 1..Len(cmds) :
          /\ cmds[i] = DrawCalls[2]
          /\ cmds[LastBound("OMSetBlendState", i)].args = <<"NonPremultiplied">>
          /\ cmds[LastBound("RSSetState", i)].args = <<"CullClockwise">>

\* -------------------------------------------------------------------- C20
ReadingDraws == {"DrawBones", "DrawSkinned", "MeshDrawSkinned"}

\* The data-model invariant a loader is to keep: one absolute transform per bone.
OwnArrayMatchesBones == Len(boneMatrices) = Len(bones)

\* C20: with one absolute transform per bone of the Model, every read of a
\* transform array made by Model::Draw (bone-transform array), including the
\* reads from the Model's own array when it is substituted, and by
\* ModelMesh::DrawSkinned is at an index below the length of the array read,
\* whether the mesh's boneIndex is the sentinel, an index into the array or an
\* index at or beyond its length.  (Model::Draw reads once per mesh and pass,
\* ModelMesh::DrawSkinned once per world matrix it pushes.)
C20_ReadsWithinArray ==
    (call.op \in ReadingDraws /\ OwnArrayMatchesBones) =>
        /\ \A k \in 1..Len(reads) :
              reads[k].index >= 0 /\ reads[k].index < reads[k].length
        /\ (call.op = "DrawBones" /\ result = OK) => Len(reads) = 2 * Len(meshes)
        /\ call.op # "DrawBones" =>
              Len(reads) = Len(SelectSeq(cmds, LAMBDA c : c.op = "SetWorld"))
        /\ result = InvalidArgument => reads = << >>

\* Model::Draw handed no array on a model whose mesh is bound to a bone index
\* equal to the bone count: the Model's own array is read at element 0.
C20_Witness ==
    /\ call.op = "DrawBones" /\ result = OK /\ OwnArrayMatchesBones
    /\ args.boneTransforms.isNull
    /\ meshes[1].boneIndex = Len(bones)
    /\ Len(reads) = 2
    /\ reads[1] = [index |-> 0, length |-> Len(bones)]

\* ------------------------------------------------- the post-process's entry points

\* What no call on the post-process touches.
modelFrame ==
    <<meshes, bones, boneMatrices, mEffectCache, args, visited, firstDone, firstVisited, rebound,
      iinputLayout, reads>>

\* The values a caller passes for an Operator and for a TransferFunction: every
\* enumerator, and values on both sides of the range.
OperatorArgs == (0 - 1)..(Operator_Max + 1)
TransferFunctionArgs == (0 - 1)..(TransferFunction_Max + 1)

\* ToneMapPostProcess::SetOperator(op).
SetOperator ==
    \E op \in OperatorArgs :
        LET r == ToneMapPostProcess_SetOperator(toneMap, op)
        IN  /\ toneMap' = r.t
            /\ result' = Outcome(r)
            /\ call' = [NoCall EXCEPT !.op = "SetOperator"]
            /\ cmds' = << >>
            /\ toneMapLog' = [toneMapLog EXCEPT !.arg = op, !.old = toneMap, !.fresh = FALSE,
                                                !.quiet = FALSE, !.crossed = FALSE]
            /\ UNCHANGED modelFrame

\* ToneMapPostProcess::SetTransferFunction(func).
SetTransferFunction ==
    \E func \in TransferFunctionArgs :
        LET r == ToneMapPostProcess_SetTransferFunction(toneMap, func)
        IN  /\ toneMap' = r.t
            /\ result' = Outcome(r)
            /\ call' = [NoCall EXCEPT !.op = "SetTransferFunction"]
            /\ cmds' = << >>
            /\ toneMapLog' = [toneMapLog EXCEPT !.arg = func, !.old = toneMap, !.fresh = FALSE,
                                                !.quiet = FALSE, !.crossed = FALSE]
            /\ UNCHANGED modelFrame

\* ToneMapPostProcess::SetHDR10Parameter(paperWhiteNits).
SetHDR10Parameter ==
    \E paperWhiteNits \in NitsValues :
        /\ toneMap' = ToneMapPostProcess_SetHDR10Parameter(toneMap, paperWhiteNits)
        /\ result' = OK
        /\ call' = [NoCall EXCEPT !.op = "SetHDR10Parameter"]
        /\ cmds' = << >>
        /\ toneMapLog' = [toneMapLog EXCEPT
                              !.arg = paperWhiteNits, !.old = toneMap,
                              !.requested = paperWhiteNits, !.fresh = FALSE,
                              !.quiet = FALSE, !.crossed = FALSE,
                              !.pending = IF toneMap.func = ST2084 THEN "none" ELSE "changed"]
        /\ UNCHANGED modelFrame

\* ToneMapPostProcess::Process(deviceContext, setCustomState).
Process ==
    \E setCustomState \in BOOLEAN :
        LET x == Impl_Process(toneMap, setCustomState)
            hdr == x.err = "" /\ toneMap.func = ST2084
        IN  /\ toneMap' = x.t
            /\ result' = Outcome(x)
            /\ call' = [NoCall EXCEPT !.op = "Process"]
            /\ cmds' = x.cmds
            /\ toneMapLog' = [toneMapLog EXCEPT
                                  !.old = toneMap,
                                  !.fresh = hdr,
                                  !.quiet = hdr /\ toneMapLog.fresh,
                                  !.crossed = hdr /\ (\/ toneMapLog.pending = "ran"
                                                      \/ toneMapLog.fresh /\ toneMapLog.crossed),
                                  !.pending = IF hdr THEN "none"
                                              ELSE IF toneMapLog.pending = "changed" THEN "ran"
                                              ELSE toneMapLog.pending]
            /\ UNCHANGED modelFrame

\* The post-process as constructed, with any contents in its constant buffer,
\* beside an empty Model.
InitToneMap ==
    /\ InitModel({<< >>}, {0}, PlainArgs({<<0, NullArray>>}))
    /\ toneMap \in { Impl(buffer) : buffer \in Uninitialized }
    /\ toneMapLog = NoLog
NextToneMap == SetOperator \/ SetTransferFunction \/ SetHDR10Parameter \/ Process
SpecToneMap == InitToneMap /\ [][NextToneMap]_vars

\* ------------------------------------------------------------------ C21

Uploads == { i \in 1..Len(cmds) : cmds[i].op = "SetData" }
Binds == { i \in 1..Len(cmds) : cmds[i].op = "PSSetConstantBuffers" }

\* An ST2084 Process that completed.
ProcessedHDR10 == call.op = "Process" /\ result = OK /\ toneMap.func = ST2084

SelectedShader == GetPixelShader(Impl_GetCurrentShaderPermutation(toneMap))
ShaderName(x) == pixelShaders[x.shaderIndex + 1]
ShadersSet == { cmds[i].args : i \in { j \in 1..Len(cmds) : cmds[j].op = "PSSetShader" } }

\* C22: in every state reachable through the setters, the permutation
\* func * Operator_Max + op lies in [0, ShaderPermutationCount) and its entry of
\* pixelShaderIndices in [0, PixelShaderCount), so neither assertion of
\* GetPixelShader fails and Process sets that shader; ST2084 selects the HDR10
\* shader with every operator, and Linear and Gamma22 share one Filmic shader.
C22_PermutationInRange ==
    /\ Impl_GetCurrentShaderPermutation(toneMap) \in 0..(ShaderPermutationCount - 1)
    /\ SelectedShader.err = ""
    /\ SelectedShader.shaderIndex \in 0..(PixelShaderCount - 1)
    /\ toneMap.func = ST2084 => ShaderName(SelectedShader) = "PSHDR10"
    /\ toneMap.op = ACESFilmic /\ toneMap.func \in {Linear, SRGB} =>
           ShaderName(SelectedShader) = "PSFilmic"
    /\ call.op = "Process" => result = OK /\ ShadersSet = { << ShaderName(SelectedShader) >> }

\* Process under Gamma22 with the filmic operator set the Filmic shader of Linear.
C22_Witness ==
    /\ call.op = "Process" /\ result = OK
    /\ toneMap.func = SRGB /\ toneMap.op = ACESFilmic
    /\ Impl_GetCurrentShaderPermutation(toneMap) = 7
    /\ ShadersSet = { << "PSFilmic" >> }

\* ------------------------------------------------------------------ C23

\* The fields a failed setter must leave alone.
Settings(t) == <<t.op, t.func, t.mUseConstants, t.mDirtyFlags>>

\* C23: SetOperator and SetTransferFunction called with a value below 0 or at
\* or above Operator_Max / TransferFunction_Max fail with an out-of-range error
\* and leave operator, transfer function, use-constants flag and dirty flags as
\* they were; with a valid value SetTransferFunction sets the transfer
\* function, sets the use-constants flag to (func == ST2084) and marks every
\* dirty flag, and SetOperator changes the operator and nothing else.
C23_SettersCheckRange ==
    /\ call.op = "SetOperator" =>
           IF toneMapLog.arg < 0 \/ toneMapLog.arg >= Operator_Max
           THEN result = OutOfRange /\ Settings(toneMap) = Settings(toneMapLog.old)
           ELSE result = OK /\ toneMap = [toneMapLog.old EXCEPT !.op = toneMapLog.arg]
    /\ call.op = "SetTransferFunction" =>
           IF toneMapLog.arg < 0 \/ toneMapLog.arg >= TransferFunction_Max
           THEN result = OutOfRange /\ Settings(toneMap) = Settings(toneMapLog.old)
           ELSE /\ result = OK
                /\ toneMap.func = toneMapLog.arg
                /\ toneMap.mUseConstants = (toneMapLog.arg = ST2084)
                /\ HasFlag(toneMap.mDirtyFlags, Dirty_ConstantBuffer)
                /\ HasFlag(toneMap.mDirtyFlags, Dirty_Parameters)
                /\ toneMap.mDirtyFlags = INT_MAX
                /\ toneMap.op = toneMapLog.old.op

\* SetTransferFunction refused a value at TransferFunction_Max while ST2084 was
\* selected and both dirty flags were clear, and they stayed clear.
C23_Witness ==
    /\ call.op = "SetTransferFunction" /\ result = OutOfRange
    /\ toneMapLog.arg = TransferFunction_Max
    /\ toneMap.func = ST2084 /\ toneMap.mUseConstants
    /\ ~HasFlag(toneMap.mDirtyFlags, Dirty_ConstantBuffer)
    /\ ~HasFlag(toneMap.mDirtyFlags, Dirty_Parameters)

====
